---- MODULE Spec2Model ----
(***************************************************************************)
(* Model of gateway-api-reference-implementation: the proxy (routing table *)
(* handle, request matcher) of pkg/proxy/proxy.go and the HTTPRoute        *)
(* reconciler of pkg/controller/httproute_controller.go.                   *)
(*                                                                         *)
(* Go strings whose characters the code inspects (request paths and path   *)
(* clause values) are sequences of one-character strings; strings that are *)
(* only compared for equality (host names, header names and values) are    *)
(* TLA+ strings.  A Go pointer is a record with a Nil flag.                *)
(***************************************************************************)
EXTENDS Integers, Sequences, FiniteSets, TLC

VARIABLES
    routes,     \* Proxy.routes: the table handle
    req,        \* the request handled by the atomic ServeHTTP (matcher specifications)
    resp,       \* the response written for req
    cand,       \* three RouteMatch values handed to isBetterMatch (order specification)
    better,     \* the results of isBetterMatch on the pairs of cand
    mu,         \* Proxy.mu: the sync.RWMutex guarding routes
    store,      \* the HTTPRoute resources of the API server, by key
    rec,        \* the locals of each HTTPRouteReconciler.Reconcile worker
    rd,         \* the locals of each ServeHTTP goroutine
    published,  \* history: every table that was assigned to Proxy.routes
    observed,   \* history: the first request that was answered
    classes,    \* the GatewayClass resources of the API server, by name
    gateways,   \* the Gateway resources of the API server, by key
    service,    \* the Service default/gari-proxy of the API server
    gcrec,      \* the locals of the GatewayClassReconciler.Reconcile worker
    gwrec,      \* the locals of the GatewayReconciler.Reconcile worker
    queue       \* the work queue of the HTTPRoute controller

vars == <<routes, req, resp, cand, better, mu, store, rec, rd, published,
          observed, classes, gateways, service, gcrec, gwrec, queue>>

gatewayVars == <<classes, gateways, service, gcrec, gwrec>>

matcherVars == <<req, resp, cand, better>>

systemVars == <<mu, store, rec, rd, published>>

(***************************************************************************)
(* Bounds of the model.                                                    *)
(***************************************************************************)
MaxSlots == 2       \* matches plus match-less rules plus rule-less routes in a table
MaxPathLen == 3     \* length of the generated request paths and clause values
MaxInFlight == 1    \* requests served concurrently
MaxRefs == 2        \* backend references of a generated rule
MaxGeneration == 2  \* generations of the spec of a GatewayClass or Gateway

(***************************************************************************)
(* Character strings used by the examples of the specification.            *)
(***************************************************************************)
S_root == <<"/">>
S_foo == <<"/", "f", "o", "o">>
S_fooSlash == <<"/", "f", "o", "o", "/">>
S_foot == <<"/", "f", "o", "o", "t">>
S_fooBar == <<"/", "f", "o", "o", "/", "b", "a", "r">>
S_foobar == <<"/", "f", "o", "o", "b", "a", "r">>

(***************************************************************************)
(* pkg/proxy/proxy.go: types.                                              *)
(***************************************************************************)
PathMatchTypeExact == "Exact"
PathMatchTypePathPrefix == "PathPrefix"
PathMatchTypeNone == "None"
\* gatewayv1.PathMatchRegularExpression: extractRoutes copies a route's path
\* type verbatim, so a table can carry this type, which Weight does not know.
PathMatchRegularExpression == "RegularExpression"

PathMatchTypes ==
    {PathMatchTypeExact, PathMatchTypePathPrefix, PathMatchTypeNone,
     PathMatchRegularExpression}

Weight(t) ==
    CASE t = PathMatchTypeExact -> 3
      [] t = PathMatchTypePathPrefix -> 2
      [] t = PathMatchTypeNone -> 1
      [] OTHER -> 0

\* RouteMatch.Path is a *PathMatch.
NilPath == [Nil |-> TRUE, Type |-> "", Value |-> <<>>]
PathMatch(t, v) == [Nil |-> FALSE, Type |-> t, Value |-> v]

HeaderMatch(t, n, v) == [Type |-> t, Name |-> n, Value |-> v]

RouteMatch(p, hs) == [Path |-> p, Headers |-> hs]

\* RouteMatch{}: the zero value.
EmptyRouteMatch == RouteMatch(NilPath, <<>>)

Backend(h, p) == [Host |-> h, Port |-> p]

RouteRule(ms, b) == [Matches |-> ms, Backend |-> b]

HTTPRoute(hs, rs) == [Hostnames |-> hs, Rules |-> rs]

\* *Backend and *RouteMatch, the two locals of ServeHTTP.
NilBackend == [Nil |-> TRUE, Host |-> "", Port |-> 0]
BackendPtr(b) == [Nil |-> FALSE, Host |-> b.Host, Port |-> b.Port]
NilMatch == [Nil |-> TRUE, M |-> EmptyRouteMatch]
MatchPtr(m) == [Nil |-> FALSE, M |-> m]

(***************************************************************************)
(* net/http: Header.Get canonicalises the name it is given and returns the *)
(* first value stored under it, "" when there is none.  A request's header *)
(* is a function from the canonical names to values.                       *)
(***************************************************************************)
CanonicalNames == {"X-A", "X-B"}

CanonicalHeaderKey(n) ==
    CASE n = "x-a" -> "X-A"
      [] n = "x-b" -> "X-B"
      [] OTHER -> n

HeaderGet(h, n) ==
    IF CanonicalHeaderKey(n) \in DOMAIN h THEN h[CanonicalHeaderKey(n)] ELSE ""

(***************************************************************************)
(* pkg/proxy/proxy.go: the matcher.                                        *)
(***************************************************************************)
getPathMatchType(m) == IF m.Path.Nil THEN PathMatchTypeNone ELSE m.Path.Type

getPathLen(m) == IF m.Path.Nil THEN 0 ELSE Len(m.Path.Value)

\* Mutant of isBetterMatch: the header clause counts compared with >=.
isBetterMatchOrEqual(current, best) ==
    IF best.Nil THEN TRUE
    ELSE IF getPathMatchType(current) # getPathMatchType(best.M)
        THEN Weight(getPathMatchType(current)) > Weight(getPathMatchType(best.M))
    ELSE IF getPathLen(current) # getPathLen(best.M)
        THEN getPathLen(current) > getPathLen(best.M)
    ELSE Len(current.Headers) >= Len(best.M.Headers)

\* best is a *RouteMatch, current is never nil.
isBetterMatch(current, best) ==
    IF best.Nil THEN TRUE
    ELSE LET currentType == getPathMatchType(current)
             bestType == getPathMatchType(best.M)
             currentPathLen == getPathLen(current)
             bestPathLen == getPathLen(best.M)
         IN IF currentType # bestType
                THEN Weight(currentType) > Weight(bestType)
            ELSE IF currentPathLen # bestPathLen
                THEN currentPathLen > bestPathLen
            ELSE Len(current.Headers) > Len(best.M.Headers)

\* Mutant of matchHostname: a wildcard label admits a subdomain.
matchHostnameWildcard(hostnames, host) ==
    IF Len(hostnames) = 0 THEN TRUE
    ELSE \E i \in 1..Len(hostnames) :
            \/ hostnames[i] = "*"
            \/ hostnames[i] = host
            \/ hostnames[i] = "*.example.com" /\ host = "a.example.com"

matchHostname(hostnames, host) ==
    IF Len(hostnames) = 0 THEN TRUE
    ELSE \E i \in 1..Len(hostnames) : hostnames[i] = "*" \/ hostnames[i] = host

\* Mutant of hasPathPrefix: a plain string prefix test.
hasPathPrefixNaive(path, prefix) ==
    Len(path) >= Len(prefix) /\ SubSeq(path, 1, Len(prefix)) = prefix

\* path[len(prefix)] is the character after the prefix: index Len(prefix)+1 here.
hasPathPrefix(path, prefix) ==
    IF prefix = <<"/">> THEN TRUE
    ELSE IF path = prefix THEN TRUE
    ELSE IF /\ Len(path) > Len(prefix)
            /\ path[Len(prefix) + 1] = "/"
            /\ SubSeq(path, 1, Len(prefix)) = prefix THEN TRUE
    ELSE IF /\ Len(prefix) > 0
            /\ prefix[Len(prefix)] = "/"
            /\ Len(path) >= Len(prefix)
            /\ SubSeq(path, 1, Len(prefix)) = prefix THEN TRUE
    ELSE FALSE

\* Mutant of matchPath: an Exact clause tested as a prefix.
matchPathExactAsPrefix(match, r) ==
    IF match.Path.Nil THEN TRUE
    ELSE CASE match.Path.Type = PathMatchTypeExact ->
                  /\ Len(r.Path) >= Len(match.Path.Value)
                  /\ SubSeq(r.Path, 1, Len(match.Path.Value)) = match.Path.Value
           [] match.Path.Type = PathMatchTypePathPrefix ->
                  hasPathPrefix(r.Path, match.Path.Value)
           [] OTHER -> TRUE

matchPath(match, r) ==
    IF match.Path.Nil THEN TRUE
    ELSE CASE match.Path.Type = PathMatchTypeExact -> r.Path = match.Path.Value
           [] match.Path.Type = PathMatchTypePathPrefix ->
                  hasPathPrefix(r.Path, match.Path.Value)
           [] OTHER -> TRUE

matchMatch(match, r) ==
    /\ matchPath(match, r)
    /\ \A i \in 1..Len(match.Headers) :
           HeaderGet(r.Header, match.Headers[i].Name) = match.Headers[i].Value

\* The state of the scan: the locals bestBackend and bestMatch.
NoBest == [bestBackend |-> NilBackend, bestMatch |-> NilMatch]

\* One iteration of the loop over rule.Matches.
\* Mutant of scanMatch: a satisfied match that is not worse than the best one
\* replaces it, so the last of equal matches wins.
scanMatchKeepLast(rule, m, best, r) ==
    IF matchMatch(m, r)
       /\ \/ isBetterMatch(m, best.bestMatch)
          \/ ~best.bestMatch.Nil /\ ~isBetterMatch(best.bestMatch.M, MatchPtr(m))
        THEN [bestBackend |-> BackendPtr(rule.Backend), bestMatch |-> MatchPtr(m)]
        ELSE best

scanMatch(rule, m, best, r) ==
    IF matchMatch(m, r) /\ isBetterMatch(m, best.bestMatch)
        THEN [bestBackend |-> BackendPtr(rule.Backend), bestMatch |-> MatchPtr(m)]
        ELSE best

RECURSIVE scanMatches(_, _, _, _)
scanMatches(rule, i, best, r) ==
    IF i > Len(rule.Matches) THEN best
    ELSE scanMatches(rule, i + 1, scanMatch(rule, rule.Matches[i], best, r), r)

\* Mutant of scanRule: the rule without matches is never taken.
scanRuleNoUniversal(rule, best, r) == scanMatches(rule, 1, best, r)

\* One iteration of the loop over route.Rules: the matches, then the rule
\* with no matches, which is taken only while bestBackend is nil.
scanRule(rule, best, r) ==
    LET b == scanMatches(rule, 1, best, r)
    IN IF Len(rule.Matches) = 0 /\ b.bestBackend.Nil
           THEN [bestBackend |-> BackendPtr(rule.Backend),
                 bestMatch |-> MatchPtr(EmptyRouteMatch)]
           ELSE b

RECURSIVE scanRules(_, _, _, _)
scanRules(rules, k, best, r) ==
    IF k > Len(rules) THEN best
    ELSE scanRules(rules, k + 1, scanRule(rules[k], best, r), r)

\* Mutant of scanRoute: the loop over route.Rules has one rule variable for
\* all its iterations, so a backend taken in this route is, after the loop,
\* the backend of the route's last rule.
scanRouteSharedRule(route, best, r) ==
    IF ~matchHostname(route.Hostnames, r.Host) THEN best
    ELSE LET b == scanRules(route.Rules, 1, best, r)
         IN  IF b = best THEN b
             ELSE [b EXCEPT !.bestBackend =
                       BackendPtr(route.Rules[Len(route.Rules)].Backend)]

\* One iteration of the loop over the captured table.
scanRoute(route, best, r) ==
    IF ~matchHostname(route.Hostnames, r.Host) THEN best
    ELSE scanRules(route.Rules, 1, best, r)

RECURSIVE scanRoutes(_, _, _, _)
scanRoutes(table, i, best, r) ==
    IF i > Len(table) THEN best
    ELSE scanRoutes(table, i + 1, scanRoute(table[i], best, r), r)

\* What ServeHTTP writes: the hand-off to forward, or the 404 of http.Error.
NoResponse == [Status |-> "none", Host |-> "", Port |-> 0]
Forwarded(b) == [Status |-> "forward", Host |-> b.Host, Port |-> b.Port]
NotFound == [Status |-> "404", Host |-> "", Port |-> 0]

respond(best) ==
    IF ~best.bestBackend.Nil THEN Forwarded(best.bestBackend) ELSE NotFound

\* ServeHTTP on a captured table.
Resolve(table, r) == respond(scanRoutes(table, 1, NoBest, r))

(***************************************************************************)
(* Inputs of the matcher specification: tables as UpdateRoutes receives    *)
(* them and requests as the HTTP server delivers them.  A table is drawn   *)
(* from every layout of at most MaxSlots slots over routes and rules; a    *)
(* slot is a match, a rule without matches, or a route without rules.      *)
(* Every rule of a table has its own backend, so that the backend of a     *)
(* response tells which rule supplied it.                                  *)
(***************************************************************************)
ExactHeaderXA == HeaderMatch("Exact", "x-a", "1")

\* Matches of the precedence family: every path clause with and without a
\* header clause.
PrecedencePaths ==
    {NilPath,
     PathMatch(PathMatchTypeExact, S_foo),
     PathMatch(PathMatchTypePathPrefix, S_foo),
     PathMatch(PathMatchTypePathPrefix, S_fooBar),
     PathMatch(PathMatchRegularExpression, S_foo)}

PrecedenceMatches ==
    {RouteMatch(p, hs) : p \in PrecedencePaths, hs \in {<<>>, <<ExactHeaderXA>>}}

PrecedenceHostLists == {<<>>}

NoHeader == [n \in {} |-> ""]

PrecedenceRequests ==
    {[Host |-> "example.com", Path |-> p, Header |-> h] :
        p \in {S_foo, S_fooBar, S_foot},
        h \in {NoHeader, [n \in {"X-A"} |-> "1"]}}

\* Matches, host lists and requests of the host name family.
HostMatches ==
    {EmptyRouteMatch, RouteMatch(PathMatch(PathMatchTypeExact, S_foo), <<>>)}

HostLists ==
    {<<>>, <<"*">>, <<"example.com">>, <<"*.example.com">>,
     <<"other.com", "example.com">>}

HostRequests ==
    {[Host |-> h, Path |-> p, Header |-> NoHeader] :
        h \in {"example.com", "a.example.com", "example.com:8000"},
        p \in {S_foo, S_fooBar}}

\* Character strings of the path family: every string of at most MaxPathLen
\* characters over the alphabet, and the strings of the examples.
PathAlphabet == {"/", "a", "b"}

PathStrings ==
    UNION {[1..n -> PathAlphabet] : n \in 0..MaxPathLen}
        \cup {S_root, S_foo, S_fooSlash, S_foot, S_fooBar, S_foobar}

SvcHost ==
    << <<"a1.ns.svc.cluster.local", "a2.ns.svc.cluster.local",
         "a3.ns.svc.cluster.local", "a4.ns.svc.cluster.local">>,
       <<"b1.ns.svc.cluster.local", "b2.ns.svc.cluster.local",
         "b3.ns.svc.cluster.local", "b4.ns.svc.cluster.local">>,
       <<"c1.ns.svc.cluster.local", "c2.ns.svc.cluster.local",
         "c3.ns.svc.cluster.local", "c4.ns.svc.cluster.local">>,
       <<"d1.ns.svc.cluster.local", "d2.ns.svc.cluster.local",
         "d3.ns.svc.cluster.local", "d4.ns.svc.cluster.local">> >>

BackendAt(ri, ki) == Backend(SvcHost[ri][ki], 80)

\* The match lists of a rule that fills k slots.
MatchLists(matches, k) ==
    [1..k -> matches] \cup (IF k = 1 THEN {<<>>} ELSE {})

\* The rule lists (each rule as its match list) that fill n slots.
RECURSIVE RuleLists(_, _)
RuleLists(matches, n) ==
    IF n = 0 THEN {<<>>}
    ELSE UNION {{<<ms>> \o rest : ms \in MatchLists(matches, k),
                                  rest \in RuleLists(matches, n - k)} :
                k \in 1..n}

\* The route lists that fill n slots.
RECURSIVE RouteLists(_, _, _)
RouteLists(matches, hosts, n) ==
    IF n = 0 THEN {<<>>}
    ELSE UNION {{<<[h |-> h, rl |-> rl]>> \o rest :
                    h \in hosts,
                    rl \in RuleLists(matches, k)
                              \cup (IF k = 1 THEN {<<>>} ELSE {}),
                    rest \in RouteLists(matches, hosts, n - k)} :
                k \in 1..n}

MkTable(shape) ==
    [ri \in 1..Len(shape) |->
        HTTPRoute(shape[ri].h,
                  [ki \in 1..Len(shape[ri].rl) |->
                      RouteRule(shape[ri].rl[ki], BackendAt(ri, ki))])]

TablesOver(matches, hosts) ==
    {MkTable(s) : s \in UNION {RouteLists(matches, hosts, n) : n \in 0..MaxSlots}}

\* One route, one rule, one match with a path clause of each matched type.
PathTables ==
    {<<HTTPRoute(<<>>, <<RouteRule(<<RouteMatch(PathMatch(t, v), <<>>)>>,
                                   BackendAt(1, 1))>>)>> :
        t \in {PathMatchTypeExact, PathMatchTypePathPrefix}, v \in PathStrings}

PathRequests ==
    {[Host |-> "example.com", Path |-> p, Header |-> NoHeader] : p \in PathStrings}

NoRequest == [Host |-> "", Path |-> <<>>, Header |-> NoHeader]

NoCand == <<EmptyRouteMatch, EmptyRouteMatch, EmptyRouteMatch>>

NoBetter == [i \in 1..3 |-> [j \in 1..3 |-> FALSE]]

(***************************************************************************)
(* The API server: HTTPRoute resources (gatewayv1.HTTPRoute).  An optional *)
(* field (a Go pointer) is a record with a Nil flag and the value V.       *)
(***************************************************************************)
\* Reconciles of one controller run one at a time unless SetupWithManager
\* raises MaxConcurrentReconciles, which it does not.
MaxConcurrentReconciles == 1

Workers == 1..MaxConcurrentReconciles

Readers == 1..MaxInFlight

ControllerName == "github.com/gke-labs/gateway-api-reference-implementation"

OtherControllerName == "example.com/other-controller"

RouteKeys == {"r1", "r2"}

\* The routes another Gateway controller also reports on.
OtherControllerRoutes == {"r2"}

NamespaceOf(k) == IF k = "r1" THEN "ns1" ELSE "ns2"

Unset == [Nil |-> TRUE, V |-> ""]

Ptr(v) == [Nil |-> FALSE, V |-> v]

UnsetPort == [Nil |-> TRUE, V |-> 0]

GwPath(t, v) == [Nil |-> FALSE, Type |-> t, Value |-> v]

GwNoPath == [Nil |-> TRUE, Type |-> Unset, Value |-> <<>>]

GwHeader(t, n, v) == [Type |-> t, Name |-> n, Value |-> v]

GwMatch(p, hs) == [Path |-> p, Headers |-> hs]

GwBackendRef(kind, name, port) == [Kind |-> kind, Name |-> name, Port |-> port]

GwRule(ms, brs) == [Matches |-> ms, BackendRefs |-> brs]

GwSpec(prs, hs, rs) == [ParentRefs |-> prs, Hostnames |-> hs, Rules |-> rs]

Condition(t, s, r) == [Type |-> t, Status |-> s, Reason |-> r]

RouteParentStatus(pr, cn, cs) ==
    [ParentRef |-> pr, ControllerName |-> cn, Conditions |-> cs]

\* regexp.Compile on the patterns of the catalogue: "(" has no closing
\* parenthesis and does not compile.
RegexpCompiles(pattern) == pattern \notin {"("}

\* A route the controller builds a table entry from: one Exact path clause,
\* one Service backend, one parent.
SpecValid ==
    GwSpec(<<"gw1">>, <<"example.com">>,
           <<GwRule(<<GwMatch(GwPath(Ptr("Exact"), S_foo), <<>>)>>,
                    <<GwBackendRef(Unset, "svc1", Ptr(80))>>)>>)

\* The same route with a header clause whose regular expression is invalid,
\* attached to two parents.
SpecInvalid ==
    GwSpec(<<"gw1", "gw2">>, <<"example.com">>,
           <<GwRule(<<GwMatch(GwPath(Ptr("Exact"), S_foo),
                              <<GwHeader(Ptr("RegularExpression"), "x-a", "(")>>)>>,
                    <<GwBackendRef(Unset, "svc1", Ptr(80))>>)>>)

\* A route with a match-less rule, a rule whose path and header types are
\* defaulted and whose first backend reference is not a Service, and a rule
\* with no usable backend reference.
SpecPlain ==
    GwSpec(<<"gw1">>, <<>>,
           <<GwRule(<<>>, <<GwBackendRef(Ptr("Service"), "svc2", Ptr(8080))>>),
             GwRule(<<GwMatch(GwPath(Unset, S_foo),
                              <<GwHeader(Unset, "x-a", "1")>>)>>,
                    <<GwBackendRef(Ptr("ConfigMap"), "cm", Ptr(1)),
                      GwBackendRef(Unset, "svc2b", Ptr(81))>>),
             GwRule(<<>>, <<GwBackendRef(Unset, "noport", UnsetPort)>>)>>)

\* A route attached to no parent.
SpecNoParents ==
    GwSpec(<<>>, <<>>,
           <<GwRule(<<>>, <<GwBackendRef(Unset, "svc3", Ptr(80))>>)>>)

EmptySpec == GwSpec(<<>>, <<>>, <<>>)

Catalogue(k) ==
    IF k = "r1" THEN {SpecValid, SpecInvalid} ELSE {SpecPlain, SpecNoParents}

Absent == [Exists |-> FALSE, Spec |-> EmptySpec, Parents |-> <<>>]

Resource(spec, parents) == [Exists |-> TRUE, Spec |-> spec, Parents |-> parents]

\* An element of an HTTPRouteList, and the object Get fills in.
Item(k, res) ==
    [Key |-> k, Namespace |-> NamespaceOf(k), Spec |-> res.Spec, Parents |-> res.Parents]

NoItem == [Key |-> "", Namespace |-> "", Spec |-> EmptySpec, Parents |-> <<>>]

(***************************************************************************)
(* pkg/controller/httproute_controller.go: pure parts.                     *)
(***************************************************************************)
HeaderInvalid(header) ==
    /\ ~header.Type.Nil
    /\ header.Type.V = "RegularExpression"
    /\ ~RegexpCompiles(header.Value)

\* Mutant of validateRoute: no pattern is compiled.
validateRouteLax(route) == TRUE

\* validateRoute: the error of the first header clause whose regular
\* expression does not compile; TRUE stands for a nil error.
validateRoute(route) ==
    ~\E i \in DOMAIN route.Spec.Rules :
        \E j \in DOMAIN route.Spec.Rules[i].Matches :
            \E h \in DOMAIN route.Spec.Rules[i].Matches[j].Headers :
                HeaderInvalid(route.Spec.Rules[i].Matches[j].Headers[h])

\* Mutant of parentStatuses: a valid route is not given Accepted = True.
parentStatusesUnknown(route, valid) ==
    [i \in DOMAIN route.Spec.ParentRefs |->
        RouteParentStatus(route.Spec.ParentRefs[i], ControllerName,
            <<Condition("Accepted",
                        IF valid THEN "Unknown" ELSE "False",
                        IF valid THEN "Pending" ELSE "UnsupportedValue"),
              Condition("ResolvedRefs", "True", "ResolvedRefs")>>)]

\* Mutant of parentStatuses: the entries the route held are kept.
parentStatusesMerged(route, valid) ==
    route.Parents \o
    [i \in DOMAIN route.Spec.ParentRefs |->
        RouteParentStatus(route.Spec.ParentRefs[i], ControllerName,
            <<Condition("Accepted",
                        IF valid THEN "True" ELSE "False",
                        IF valid THEN "Accepted" ELSE "UnsupportedValue"),
              Condition("ResolvedRefs", "True", "ResolvedRefs")>>)]

\* Reconcile: the parent statuses built from the result of validateRoute.
parentStatuses(route, valid) ==
    [i \in DOMAIN route.Spec.ParentRefs |->
        RouteParentStatus(route.Spec.ParentRefs[i], ControllerName,
            <<Condition("Accepted",
                        IF valid THEN "True" ELSE "False",
                        IF valid THEN "Accepted" ELSE "UnsupportedValue"),
              Condition("ResolvedRefs", "True", "ResolvedRefs")>>)]

HasAcceptedTrue(ps) ==
    \E j \in DOMAIN ps.Conditions :
        ps.Conditions[j].Type = "Accepted" /\ ps.Conditions[j].Status = "True"

\* Mutant of routeAccepted: any controller's acceptance counts.
routeAcceptedAnyController(route) ==
    \E i \in DOMAIN route.Parents : HasAcceptedTrue(route.Parents[i])

\* extractRoutes, the acceptance loop: some parent status of this controller
\* carries Accepted = True.
routeAccepted(route) ==
    \E i \in DOMAIN route.Parents :
        /\ route.Parents[i].ControllerName = ControllerName
        /\ HasAcceptedTrue(route.Parents[i])

compileHeader(header) ==
    HeaderMatch(IF header.Type.Nil THEN "Exact" ELSE header.Type.V,
                header.Name, header.Value)

\* Mutant of compileMatch: a path clause without a type becomes Exact.
compileMatchDefaultExact(match) ==
    RouteMatch(IF match.Path.Nil THEN NilPath
               ELSE PathMatch(IF match.Path.Type.Nil THEN PathMatchTypeExact
                              ELSE match.Path.Type.V,
                              match.Path.Value),
               LET kept == SelectSeq(match.Headers, LAMBDA h : ~HeaderInvalid(h))
               IN  [i \in DOMAIN kept |-> compileHeader(kept[i])])

\* Mutant of compileMatch: a header clause is compiled whether or not its
\* pattern compiles.
compileMatchEveryHeader(match) ==
    RouteMatch(IF match.Path.Nil THEN NilPath
               ELSE PathMatch(IF match.Path.Type.Nil THEN PathMatchTypePathPrefix
                              ELSE match.Path.Type.V,
                              match.Path.Value),
               [i \in DOMAIN match.Headers |-> compileHeader(match.Headers[i])])

compileMatch(match) ==
    RouteMatch(IF match.Path.Nil THEN NilPath
               ELSE PathMatch(IF match.Path.Type.Nil THEN PathMatchTypePathPrefix
                              ELSE match.Path.Type.V,
                              match.Path.Value),
               LET kept == SelectSeq(match.Headers, LAMBDA h : ~HeaderInvalid(h))
               IN  [i \in DOMAIN kept |-> compileHeader(kept[i])])

BackendQualifies(br) ==
    /\ br.Kind.Nil \/ br.Kind.V = "Service"
    /\ ~br.Port.Nil

\* Mutant of firstBackend: the last Service reference with a port.
RECURSIVE lastBackend(_, _, _)
lastBackend(brs, i, ns) ==
    IF i > Len(brs) THEN NilBackend
    ELSE LET later == lastBackend(brs, i + 1, ns)
         IN  IF ~later.Nil THEN later
             ELSE IF BackendQualifies(brs[i])
                  THEN BackendPtr(Backend(brs[i].Name \o "." \o ns \o ".svc.cluster.local",
                                          brs[i].Port.V))
                  ELSE NilBackend

\* extractRoutes, the backend loop: the first Service reference with a port.
RECURSIVE firstBackend(_, _, _)
firstBackend(brs, i, ns) ==
    IF i > Len(brs) THEN NilBackend
    ELSE IF BackendQualifies(brs[i])
         THEN BackendPtr(Backend(brs[i].Name \o "." \o ns \o ".svc.cluster.local",
                                 brs[i].Port.V))
         ELSE firstBackend(brs, i + 1, ns)

compileRule(rule, ns) ==
    LET b == firstBackend(rule.BackendRefs, 1, ns)
    IN  RouteRule([i \in DOMAIN rule.Matches |-> compileMatch(rule.Matches[i])],
                  Backend(b.Host, b.Port))

\* Mutant of compileRoute: a rule without a usable backend reference is
\* compiled too, with the zero Backend.
compileRouteEveryRule(route) ==
    HTTPRoute(route.Spec.Hostnames,
              [i \in DOMAIN route.Spec.Rules |->
                  compileRule(route.Spec.Rules[i], route.Namespace)])

compileRoute(route) ==
    LET kept == SelectSeq(route.Spec.Rules,
                    LAMBDA rule : ~firstBackend(rule.BackendRefs, 1, route.Namespace).Nil)
    IN  HTTPRoute(route.Spec.Hostnames,
                  [i \in DOMAIN kept |-> compileRule(kept[i], route.Namespace)])

extractRoutes(list) ==
    LET kept == SelectSeq(list, routeAccepted)
    IN  [i \in DOMAIN kept |-> compileRoute(kept[i])]

\* The orders in which List can return the resources that exist.
Lists(st) ==
    LET keys == {k \in RouteKeys : st[k].Exists}
    IN  {[i \in DOMAIN o |-> Item(o[i], st[o[i]])] :
            o \in {f \in [1..Cardinality(keys) -> keys] :
                      \A i, j \in DOMAIN f : i # j => f[i] # f[j]}}

(***************************************************************************)
(* The API server: GatewayClass and Gateway resources and the Service of   *)
(* the proxy (pkg/controller/gateway_controller.go).                       *)
(***************************************************************************)
ClassKeys == {"gc1"}

GatewayKeys == {"gw1"}

\* The class names a Gateway can name: the class of the store, and a class
\* that does not exist.
GatewayClassNames == {"gc1", "gc-none"}

\* metav1.Condition with the generation it was computed from.
GenCondition(t, s, g, r) ==
    [Type |-> t, Status |-> s, ObservedGeneration |-> g, Reason |-> r]

AbsentClass ==
    [Exists |-> FALSE, ControllerName |-> "", ParametersRef |-> Unset,
     Generation |-> 0, Conditions |-> <<>>]

\* The condition the API server's defaulting gives a new GatewayClass.
PendingClassConditions == <<GenCondition("Accepted", "Unknown", 0, "Pending")>>

\* Conditions written by something other than this controller.
ForeignClassConditions ==
    <<GenCondition("Accepted", "False", 1, "InvalidParameters"),
      GenCondition("SupportedVersion", "True", 1, "SupportedVersion")>>

AbsentGateway ==
    [Exists |-> FALSE, GatewayClassName |-> "", Generation |-> 0,
     Conditions |-> <<>>, Addresses |-> <<>>]

\* corev1.LoadBalancerIngress.
Ingress(ip, hostname) == [IP |-> ip, Hostname |-> hostname]

AbsentService == [Exists |-> FALSE, Ingress |-> <<>>]

\* The states of the gari-proxy Service: absent, without ingress, with a
\* first ingress that has a host name and no IP, with one and two IPs.
ServiceStates ==
    {AbsentService} \cup
    {[Exists |-> TRUE, Ingress |-> i] :
        i \in {<<>>,
               <<Ingress("", "lb.example.com")>>,
               <<Ingress("", "lb.example.com"), Ingress("10.0.0.2", "")>>,
               <<Ingress("10.0.0.1", "")>>,
               <<Ingress("10.0.0.1", ""), Ingress("10.0.0.2", "")>>}}

IdleClassWorker ==
    [pc |-> "idle", key |-> "", gc |-> AbsentClass, stale |-> FALSE, result |-> ""]

IdleGatewayWorker ==
    [pc |-> "idle", key |-> "", gw |-> AbsentGateway, svc |-> AbsentService,
     ip |-> "", stale |-> FALSE, result |-> "", requeue |-> FALSE,
     err |-> FALSE]

GatewayIdle ==
    /\ classes = [k \in ClassKeys |-> AbsentClass]
    /\ gateways = [k \in GatewayKeys |-> AbsentGateway]
    /\ service = AbsentService
    /\ gcrec = IdleClassWorker
    /\ gwrec = IdleGatewayWorker

\* The work queue left out of the state.
NoQueue == [tracked |-> FALSE, keys |-> {}]

\* No completed request has been recorded.
NoObserved == [Nil |-> TRUE, routes |-> <<>>, req |-> NoRequest, resp |-> NoResponse]

(***************************************************************************)
(* Locals of the goroutines, and the mutex.                                *)
(***************************************************************************)
IdleWorker ==
    [pc |-> "idle", key |-> "", route |-> NoItem, stale |-> FALSE,
     valid |-> TRUE, list |-> <<>>, newRoutes |-> <<>>, result |-> ""]

IdleReader ==
    [pc |-> "idle", req |-> NoRequest, routes |-> <<>>, i |-> 0,
     best |-> NoBest, seen |-> <<>>, resp |-> NoResponse]

\* sync.RWMutex: the writer holding it, the writers blocked in Lock, and the
\* readers holding it.
FreeMutex == [writer |-> 0, waiting |-> {}, readers |-> {}]

SystemIdle ==
    /\ observed = NoObserved
    /\ queue = NoQueue
    /\ GatewayIdle
    /\ mu = FreeMutex
    /\ store = [k \in RouteKeys |-> Absent]
    /\ rec = [w \in Workers |-> IdleWorker]
    /\ rd = [r \in Readers |-> IdleReader]
    /\ published = {<<>>}

(***************************************************************************)
(* The matcher specification: a published table, a request, and ServeHTTP  *)
(* run to completion.                                                      *)
(***************************************************************************)
InitMatch ==
    /\ \/ /\ routes \in TablesOver(PrecedenceMatches, PrecedenceHostLists)
          /\ req \in PrecedenceRequests
       \/ /\ routes \in TablesOver(HostMatches, HostLists)
          /\ req \in HostRequests
       \/ routes \in PathTables /\ req \in PathRequests
    /\ resp = NoResponse
    /\ cand = NoCand
    /\ better = NoBetter
    /\ SystemIdle

\* Mutant of ServeHTTP: a request that is forwarded empties the table.
ServeHTTPEvicting ==
    /\ resp = NoResponse
    /\ resp' = Resolve(routes, req)
    /\ routes' = IF resp'.Status = "forward" THEN <<>> ELSE routes
    /\ UNCHANGED <<req, cand, better, systemVars, observed, gatewayVars, queue>>

\* Proxy.ServeHTTP without interleaving: capture the table, scan, answer.
ServeHTTP ==
    /\ resp = NoResponse
    /\ resp' = Resolve(routes, req)
    /\ UNCHANGED <<routes, req, cand, better, systemVars, observed, gatewayVars, queue>>

NextMatch == ServeHTTP

SpecMatch == InitMatch /\ [][NextMatch]_vars

(***************************************************************************)
(* The order specification: isBetterMatch applied to every pair of three   *)
(* matches.                                                                *)
(***************************************************************************)
OrderPaths ==
    {NilPath} \cup {PathMatch(t, v) : t \in PathMatchTypes, v \in {S_root, S_foo}}

OrderMatches ==
    {RouteMatch(p, hs) :
        p \in OrderPaths,
        hs \in {<<>>, <<ExactHeaderXA>>,
                <<ExactHeaderXA, HeaderMatch("Exact", "X-B", "2")>>}}

InitOrder ==
    /\ cand \in [1..3 -> OrderMatches]
    /\ better = <<>>
    /\ routes = <<>>
    /\ req = NoRequest
    /\ resp = NoResponse
    /\ SystemIdle

Compare ==
    /\ better = <<>>
    /\ better' = [i \in 1..3 |-> [j \in 1..3 |->
                     isBetterMatch(cand[i], MatchPtr(cand[j]))]]
    /\ UNCHANGED <<routes, req, resp, cand, systemVars, observed, gatewayVars, queue>>

NextOrder == Compare

SpecOrder == InitOrder /\ [][NextOrder]_vars

(***************************************************************************)
(* The system: the API server's HTTPRoute resources and their writers, the *)
(* Reconcile worker, and ServeHTTP goroutines, one step at a time.         *)
(***************************************************************************)
\* The work queue of the controller holds the keys whose events await a
\* Reconcile.  A queue that is not tracked stands for requests that arrive at
\* any time, a watch resync among their causes.
Added(k) == IF queue.tracked THEN [queue EXCEPT !.keys = @ \cup {k}] ELSE queue

Taken(k) == IF queue.tracked THEN [queue EXCEPT !.keys = @ \ {k}] ELSE queue

Queued(k) == ~queue.tracked \/ k \in queue.keys

\* A write to resource k makes the copy a worker fetched before it stale:
\* the worker's Status().Update then fails with a conflict.
MarkStale(k) ==
    [w \in Workers |->
        IF rec[w].pc = "fetched" /\ rec[w].key = k
        THEN [rec[w] EXCEPT !.stale = TRUE]
        ELSE rec[w]]

\* A user creates route k or replaces its spec.
ApplyRoute(k, spec) ==
    /\ ~store[k].Exists \/ store[k].Spec # spec
    /\ store' = [store EXCEPT ![k] =
                    Resource(spec, IF store[k].Exists THEN store[k].Parents ELSE <<>>)]
    /\ rec' = MarkStale(k)
    /\ queue' = Added(k)
    /\ UNCHANGED <<routes, mu, rd, published, matcherVars, observed, gatewayVars>>

\* A user deletes route k.
DeleteRoute(k) ==
    /\ store[k].Exists
    /\ store' = [store EXCEPT ![k] = Absent]
    /\ rec' = MarkStale(k)
    /\ queue' = Added(k)
    /\ UNCHANGED <<routes, mu, rd, published, matcherVars, observed, gatewayVars>>

\* Another Gateway controller records its own verdict on route k.
OtherControllerStatus(k, status) ==
    /\ store[k].Exists
    /\ \A i \in DOMAIN store[k].Parents :
           store[k].Parents[i].ControllerName # OtherControllerName
    /\ store' = [store EXCEPT ![k].Parents =
                    Append(@, RouteParentStatus("gw-other", OtherControllerName,
                                  <<Condition("Accepted", status, "Other")>>))]
    /\ rec' = MarkStale(k)
    /\ queue' = Added(k)
    /\ UNCHANGED <<routes, mu, rd, published, matcherVars, observed, gatewayVars>>

Return(w, result) ==
    [IdleWorker EXCEPT !.pc = "returned", !.key = rec[w].key, !.result = result]

\* Mutant of ReconcileGet: NotFound is returned as an error.
ReconcileGetNotFoundFails(w, k) ==
    /\ rec[w].pc = "idle"
    /\ Queued(k)
    /\ \A w2 \in DOMAIN rec : rec[w2].key # k
    /\ rec' = [rec EXCEPT ![w] =
                 IF store[k].Exists
                 THEN [IdleWorker EXCEPT !.pc = "fetched", !.key = k,
                                         !.route = Item(k, store[k]),
                                         !.valid = validateRoute(Item(k, store[k]))]
                 ELSE [IdleWorker EXCEPT !.pc = "returned", !.key = k,
                                         !.result = "error"]]
    /\ UNCHANGED <<routes, mu, store, rd, published, matcherVars, observed, gatewayVars,
                   queue>>

\* Reconcile, r.Get and validateRoute.  The work queue never hands one key to
\* two workers at a time.
ReconcileGet(w, k) ==
    /\ rec[w].pc = "idle"
    /\ Queued(k)
    /\ \A w2 \in DOMAIN rec : rec[w2].key # k
    /\ rec' = [rec EXCEPT ![w] =
                 IF store[k].Exists
                 THEN [IdleWorker EXCEPT !.pc = "fetched", !.key = k,
                                         !.route = Item(k, store[k]),
                                         !.valid = validateRoute(Item(k, store[k]))]
                 ELSE [IdleWorker EXCEPT !.pc = "returned", !.key = k,
                                         !.result = "notfound"]]
    /\ queue' = Taken(k)
    /\ UNCHANGED <<routes, mu, store, rd, published, matcherVars, observed, gatewayVars>>

\* r.Get fails with an error other than NotFound.
ReconcileGetError(w, k) ==
    /\ rec[w].pc = "idle"
    /\ Queued(k)
    /\ \A w2 \in DOMAIN rec : rec[w2].key # k
    /\ rec' = [rec EXCEPT ![w] =
                 [IdleWorker EXCEPT !.pc = "returned", !.key = k, !.result = "error"]]
    /\ UNCHANGED <<routes, mu, store, rd, published, matcherVars, observed, gatewayVars, queue>>

\* r.Status().Update of the fetched copy with the new parent statuses, and
\* the return that follows it when the route is not accepted.
ReconcileStatusUpdate(w) ==
    /\ rec[w].pc = "fetched"
    /\ IF rec[w].stale \/ ~store[rec[w].key].Exists
       THEN /\ rec' = [rec EXCEPT ![w] = Return(w, "error")]
            /\ UNCHANGED store
            /\ queue' = Added(rec[w].key)
       ELSE /\ store' = [store EXCEPT ![rec[w].key].Parents =
                            parentStatuses(rec[w].route, rec[w].valid)]
            /\ rec' = [rec EXCEPT ![w] =
                         IF rec[w].valid
                         THEN [rec[w] EXCEPT !.pc = "updated",
                                             !.route.Parents =
                                                 parentStatuses(rec[w].route, TRUE)]
                         ELSE Return(w, "rejected")]
            /\ \E event \in IF store'[rec[w].key] = store[rec[w].key]
                            THEN BOOLEAN ELSE {TRUE} :
                   queue' = IF event THEN Added(rec[w].key) ELSE queue
    /\ UNCHANGED <<routes, mu, rd, published, matcherVars, observed, gatewayVars>>

\* r.Status().Update fails for a reason of the API server's.
ReconcileStatusUpdateError(w) ==
    /\ rec[w].pc = "fetched"
    /\ rec' = [rec EXCEPT ![w] = Return(w, "error")]
    /\ queue' = Added(rec[w].key)
    /\ UNCHANGED <<routes, mu, store, rd, published, matcherVars, observed, gatewayVars>>

\* r.List and extractRoutes.
ReconcileList(w) ==
    /\ rec[w].pc = "updated"
    /\ \E l \in Lists(store) :
           rec' = [rec EXCEPT ![w] =
                     [rec[w] EXCEPT !.pc = "listed", !.list = l,
                                    !.newRoutes = extractRoutes(l)]]
    /\ UNCHANGED <<routes, mu, store, rd, published, matcherVars, observed, gatewayVars, queue>>

\* Mutant of ReconcileListError: the error of r.List is dropped and the
\* empty list is compiled.
ReconcileListErrorIgnored(w) ==
    /\ rec[w].pc = "updated"
    /\ rec' = [rec EXCEPT ![w] =
                 [rec[w] EXCEPT !.pc = "listed", !.list = <<>>, !.newRoutes = <<>>]]
    /\ UNCHANGED <<routes, mu, store, rd, published, matcherVars, observed, gatewayVars,
                   queue>>

\* r.List fails.
ReconcileListError(w) ==
    /\ rec[w].pc = "updated"
    /\ rec' = [rec EXCEPT ![w] = Return(w, "error")]
    /\ queue' = Added(rec[w].key)
    /\ UNCHANGED <<routes, mu, store, rd, published, matcherVars, observed, gatewayVars>>

\* UpdateRoutes, p.mu.Lock() with the mutex taken: the call blocks, and
\* readers arriving from now on queue behind it.
UpdateRoutesWait(w) ==
    /\ rec[w].pc = "listed"
    /\ mu.writer # 0 \/ mu.readers # {}
    /\ mu' = [mu EXCEPT !.waiting = @ \cup {w}]
    /\ rec' = [rec EXCEPT ![w].pc = "waiting"]
    /\ UNCHANGED <<routes, store, rd, published, matcherVars, observed, gatewayVars, queue>>

\* UpdateRoutes, p.mu.Lock() returns.
UpdateRoutesLock(w) ==
    /\ rec[w].pc \in {"listed", "waiting"}
    /\ mu.writer = 0 /\ mu.readers = {}
    /\ mu' = [mu EXCEPT !.writer = w, !.waiting = @ \ {w}]
    /\ rec' = [rec EXCEPT ![w].pc = "locked"]
    /\ UNCHANGED <<routes, store, rd, published, matcherVars, observed, gatewayVars, queue>>

InFlight == {r \in Readers : rd[r].pc # "idle"}

\* Mutant of UpdateRoutesAssign: only the first table is stored, later calls
\* keep the table the handle already holds.
UpdateRoutesAssignOnce(w) ==
    /\ rec[w].pc = "locked"
    /\ routes' = IF routes = <<>> THEN rec[w].newRoutes ELSE routes
    /\ published' = IF InFlight = {} THEN {routes'} ELSE published \cup {routes'}
    /\ rec' = [rec EXCEPT ![w].pc = "assigned"]
    /\ UNCHANGED <<mu, store, rd, matcherVars, observed, gatewayVars, queue>>

\* UpdateRoutes, p.routes = routes.
UpdateRoutesAssign(w) ==
    /\ rec[w].pc = "locked"
    /\ routes' = rec[w].newRoutes
    /\ published' = IF InFlight = {} THEN {rec[w].newRoutes}
                    ELSE published \cup {rec[w].newRoutes}
    /\ rec' = [rec EXCEPT ![w].pc = "assigned"]
    /\ UNCHANGED <<mu, store, rd, matcherVars, observed, gatewayVars, queue>>

\* UpdateRoutes, the deferred p.mu.Unlock(), and Reconcile's return.
UpdateRoutesUnlock(w) ==
    /\ rec[w].pc = "assigned"
    /\ mu' = [mu EXCEPT !.writer = 0]
    /\ rec' = [rec EXCEPT ![w] = Return(w, "published")]
    /\ UNCHANGED <<routes, store, rd, published, matcherVars, observed, gatewayVars, queue>>

\* The worker takes up its next item.
ReconcileDone(w) ==
    /\ rec[w].pc = "returned"
    /\ rec' = [rec EXCEPT ![w] = IdleWorker]
    /\ UNCHANGED <<routes, mu, store, rd, published, matcherVars, observed, gatewayVars, queue>>

\* Mutant of tableRead: the scan reads the shared field again.
tableReadShared(local, shared) == shared

\* ServeHTTP, the table its loop ranges over: the local copy.
tableRead(local, shared) == local

\* ServeHTTP, p.mu.RLock() and routes := p.routes.
ServeCapture(r, request) ==
    /\ rd[r].pc = "idle"
    /\ mu.writer = 0 /\ mu.waiting = {}
    /\ mu' = [mu EXCEPT !.readers = @ \cup {r}]
    /\ rd' = [rd EXCEPT ![r] =
                [IdleReader EXCEPT !.pc = "captured", !.req = request,
                                   !.routes = routes]]
    /\ UNCHANGED <<routes, store, rec, published, matcherVars, observed, gatewayVars, queue>>

\* Mutant of ServeRUnlock: the read lock is kept while the table is scanned,
\* as with a deferred RUnlock.
ServeRUnlockDeferred(r) ==
    /\ rd[r].pc = "captured"
    /\ rd' = [rd EXCEPT ![r].pc = "scan", ![r].i = 1]
    /\ UNCHANGED <<routes, mu, store, rec, published, matcherVars, observed, gatewayVars, queue>>

\* ServeHTTP, p.mu.RUnlock().
ServeRUnlock(r) ==
    /\ rd[r].pc = "captured"
    /\ mu' = [mu EXCEPT !.readers = @ \ {r}]
    /\ rd' = [rd EXCEPT ![r].pc = "scan", ![r].i = 1]
    /\ UNCHANGED <<routes, store, rec, published, matcherVars, observed, gatewayVars, queue>>

\* ServeHTTP, one iteration of the loop over the routes.
ServeScan(r) ==
    LET table == tableRead(rd[r].routes, routes) IN
    /\ rd[r].pc = "scan"
    /\ rd[r].i <= Len(table)
    /\ rd' = [rd EXCEPT ![r].i = @ + 1,
                        ![r].seen = Append(@, table[rd[r].i]),
                        ![r].best = scanRoute(table[rd[r].i], @, rd[r].req)]
    /\ UNCHANGED <<routes, mu, store, rec, published, matcherVars, observed, gatewayVars, queue>>

\* ServeHTTP, after the loop: forward to the best backend or answer 404.
ServeRespond(r) ==
    LET table == tableRead(rd[r].routes, routes) IN
    /\ rd[r].pc = "scan"
    /\ rd[r].i > Len(table)
    /\ rd' = [rd EXCEPT ![r].pc = "responded", ![r].resp = respond(rd[r].best)]
    /\ UNCHANGED <<routes, mu, store, rec, published, matcherVars, observed, gatewayVars, queue>>

\* The request is over.
ServeDone(r) ==
    /\ rd[r].pc = "responded"
    /\ rd' = [rd EXCEPT ![r] = IdleReader]
    /\ published' = IF InFlight = {r} THEN {routes} ELSE published
    /\ UNCHANGED <<routes, mu, store, rec, matcherVars, observed, gatewayVars, queue>>

MatcherIdle ==
    /\ req = NoRequest
    /\ resp = NoResponse
    /\ cand = NoCand
    /\ better = NoBetter

(***************************************************************************)
(* The reconcile specification: users and another controller write routes, *)
(* the worker reconciles them into the proxy's table.                      *)
(***************************************************************************)
InitReconcile ==
    /\ routes = <<>>
    /\ SystemIdle
    /\ MatcherIdle

NextReconcile ==
    \/ \E k \in RouteKeys : \E spec \in Catalogue(k) : ApplyRoute(k, spec)
    \/ \E k \in RouteKeys : DeleteRoute(k)
    \/ \E k \in OtherControllerRoutes : OtherControllerStatus(k, "True")
    \/ \E w \in Workers : \E k \in RouteKeys : ReconcileGet(w, k)
    \/ \E w \in Workers : \E k \in RouteKeys : ReconcileGetError(w, k)
    \/ \E w \in Workers : ReconcileStatusUpdate(w)
    \/ \E w \in Workers : ReconcileStatusUpdateError(w)
    \/ \E w \in Workers : ReconcileList(w)
    \/ \E w \in Workers : ReconcileListError(w)
    \/ \E w \in Workers : UpdateRoutesLock(w)
    \/ \E w \in Workers : UpdateRoutesAssign(w)
    \/ \E w \in Workers : UpdateRoutesUnlock(w)
    \/ \E w \in Workers : ReconcileDone(w)

SpecReconcile == InitReconcile /\ [][NextReconcile]_vars

(***************************************************************************)
(* The serving specification: the process starts on a cluster that holds   *)
(* routes, the worker publishes tables while requests are being served.    *)
(***************************************************************************)
OursAccepted(spec) ==
    parentStatuses([Spec |-> spec], TRUE)

ServeStores ==
    {[k \in RouteKeys |-> IF k = "r1" THEN a ELSE b] :
        a \in {Resource(SpecValid, OursAccepted(SpecValid))},
        b \in {Resource(SpecPlain, <<>>), Resource(SpecPlain, OursAccepted(SpecPlain))}}

ServeRequests ==
    {[Host |-> "example.com", Path |-> S_foo, Header |-> NoHeader],
     [Host |-> "other.org", Path |-> S_fooBar, Header |-> [n \in {"X-A"} |-> "1"]]}

InitServe ==
    /\ routes = <<>>
    /\ mu = FreeMutex
    /\ store \in ServeStores
    /\ rec = [w \in Workers |-> IdleWorker]
    /\ rd = [r \in Readers |-> IdleReader]
    /\ published = {<<>>}
    /\ observed = NoObserved
    /\ queue = NoQueue
    /\ GatewayIdle
    /\ MatcherIdle

NextServe ==
    \/ \E k \in RouteKeys : DeleteRoute(k)
    \/ \E w \in Workers : \E k \in RouteKeys : ReconcileGet(w, k)
    \/ \E w \in Workers : ReconcileStatusUpdate(w)
    \/ \E w \in Workers : ReconcileList(w)
    \/ \E w \in Workers : UpdateRoutesWait(w)
    \/ \E w \in Workers : UpdateRoutesLock(w)
    \/ \E w \in Workers : UpdateRoutesAssign(w)
    \/ \E w \in Workers : UpdateRoutesUnlock(w)
    \/ \E w \in Workers : ReconcileDone(w)
    \/ \E r \in Readers : \E request \in ServeRequests : ServeCapture(r, request)
    \/ \E r \in Readers : ServeRUnlock(r)
    \/ \E r \in Readers : ServeScan(r)
    \/ \E r \in Readers : ServeRespond(r)
    \/ \E r \in Readers : ServeDone(r)

SpecServe == InitServe /\ [][NextServe]_vars

(***************************************************************************)
(* The compile specification: the process starts on a cluster whose route  *)
(* r1 is drawn from generated specs, and the worker reconciles.            *)
(***************************************************************************)
BackendRefChoices ==
    {GwBackendRef(Unset, "svcA", Ptr(80)),
     GwBackendRef(Ptr("Service"), "svcB", Ptr(81)),
     GwBackendRef(Ptr("ConfigMap"), "cm", Ptr(1)),
     GwBackendRef(Unset, "noport", UnsetPort)}

RefLists == UNION {[1..n -> BackendRefChoices] : n \in 0..MaxRefs}

\* Fixed reference lists for the second rule of a generated route.
SecondRefLists ==
    {<<>>,
     <<GwBackendRef(Ptr("Service"), "svcB", Ptr(81))>>,
     <<GwBackendRef(Ptr("ConfigMap"), "cm", Ptr(1))>>}

MatchChoices ==
    {GwMatch(GwNoPath, <<>>),
     GwMatch(GwPath(Ptr("Exact"), S_foo), <<>>),
     GwMatch(GwPath(Unset, S_fooBar), <<>>),
     GwMatch(GwPath(Ptr("RegularExpression"), S_foo),
             <<GwHeader(Ptr("Exact"), "x-a", "1")>>),
     GwMatch(GwPath(Ptr("Exact"), S_foo),
             <<GwHeader(Ptr("RegularExpression"), "x-a", "("),
               GwHeader(Unset, "x-b", "1"),
               GwHeader(Ptr("RegularExpression"), "x-c", "1|2")>>)}

MatchListChoices ==
    {<<>>} \cup {<<a>> : a \in MatchChoices}
           \cup {p \in {<<a, b>> : a \in MatchChoices, b \in MatchChoices} :
                    p[1] # p[2]}

HostnameChoices == {<<>>, <<"example.com">>, <<"foo.bar", "example.com">>}

\* Routes that vary in their backend references.
BackendSpecs ==
    {GwSpec(<<"gw1">>, <<>>, <<GwRule(<<>>, a)>>) : a \in RefLists}
    \cup {GwSpec(<<"gw1">>, <<>>, <<GwRule(<<>>, a), GwRule(<<>>, b)>>) :
             a \in RefLists, b \in SecondRefLists}

\* Routes that vary in their hostnames and matches.
MatchSpecs ==
    {GwSpec(<<"gw1">>, h,
            <<GwRule(a, <<GwBackendRef(Unset, "svcA", Ptr(80))>>)>> \o rest) :
        h \in HostnameChoices, a \in MatchListChoices,
        rest \in {<<>>,
                  <<GwRule(<<>>, <<GwBackendRef(Unset, "svcB", Ptr(81))>>)>>,
                  <<GwRule(<<GwMatch(GwPath(Ptr("PathPrefix"), S_root), <<>>)>>,
                           <<GwBackendRef(Unset, "svcB", Ptr(81))>>)>>}}

CompileStores ==
    {[k \in RouteKeys |-> IF k = "r1" THEN a ELSE b] :
        a \in UNION {{Resource(spec, <<>>), Resource(spec, OursAccepted(spec))} :
                         spec \in BackendSpecs \cup MatchSpecs},
        b \in {Absent, Resource(SpecPlain, OursAccepted(SpecPlain))}}

InitCompile ==
    /\ routes = <<>>
    /\ mu = FreeMutex
    /\ store \in CompileStores
    /\ rec = [w \in Workers |-> IdleWorker]
    /\ rd = [r \in Readers |-> IdleReader]
    /\ published = {<<>>}
    /\ observed = NoObserved
    /\ queue = NoQueue
    /\ GatewayIdle
    /\ MatcherIdle

NextCompile ==
    \/ \E w \in Workers : \E k \in RouteKeys : ReconcileGet(w, k)
    \/ \E w \in Workers : ReconcileStatusUpdate(w)
    \/ \E w \in Workers : ReconcileList(w)
    \/ \E w \in Workers : UpdateRoutesLock(w)
    \/ \E w \in Workers : UpdateRoutesAssign(w)
    \/ \E w \in Workers : UpdateRoutesUnlock(w)
    \/ \E w \in Workers : ReconcileDone(w)

SpecCompile == InitCompile /\ [][NextCompile]_vars

(***************************************************************************)
(* The repeat specification: the serving specification with an observer    *)
(* that remembers one answered request, to compare later ones with.        *)
(***************************************************************************)
Observation(r) ==
    [Nil |-> FALSE, routes |-> rd[r].routes, req |-> rd[r].req, resp |-> rd[r].resp]

\* The request is over; the observer may remember it if it remembers none.
ServeDoneObserved(r) ==
    /\ rd[r].pc = "responded"
    /\ rd' = [rd EXCEPT ![r] = IdleReader]
    /\ published' = IF InFlight = {r} THEN {routes} ELSE published
    /\ \/ observed.Nil /\ observed' = Observation(r)
       \/ observed' = observed
    /\ UNCHANGED <<routes, mu, store, rec, matcherVars, gatewayVars, queue>>

NextRepeat ==
    \/ \E w \in Workers : \E k \in RouteKeys : ReconcileGet(w, k)
    \/ \E w \in Workers : ReconcileStatusUpdate(w)
    \/ \E w \in Workers : ReconcileList(w)
    \/ \E w \in Workers : UpdateRoutesWait(w)
    \/ \E w \in Workers : UpdateRoutesLock(w)
    \/ \E w \in Workers : UpdateRoutesAssign(w)
    \/ \E w \in Workers : UpdateRoutesUnlock(w)
    \/ \E w \in Workers : ReconcileDone(w)
    \/ \E r \in Readers : \E request \in ServeRequests : ServeCapture(r, request)
    \/ \E r \in Readers : ServeRUnlock(r)
    \/ \E r \in Readers : ServeScan(r)
    \/ \E r \in Readers : ServeRespond(r)
    \/ \E r \in Readers : ServeDoneObserved(r)

\* The process starts on a cluster whose two routes carry this controller's
\* acceptance.
InitRepeat ==
    /\ InitServe
    /\ \A k \in RouteKeys : store[k].Parents # <<>>

SpecRepeat == InitRepeat /\ [][NextRepeat]_vars

(***************************************************************************)
(* The settling specification: the work queue is part of the state, every  *)
(* write to a route queues its key, and a worker that can take a step      *)
(* takes one.                                                              *)
(***************************************************************************)
InitSettle ==
    /\ routes = <<>>
    /\ mu = FreeMutex
    /\ store = [k \in RouteKeys |-> Absent]
    /\ rec = [w \in Workers |-> IdleWorker]
    /\ rd = [r \in Readers |-> IdleReader]
    /\ published = {<<>>}
    /\ observed = NoObserved
    /\ queue = [tracked |-> TRUE, keys |-> {}]
    /\ GatewayIdle
    /\ MatcherIdle

\* The steps of Reconcile that return no error.
WorkerStep ==
    \E w \in Workers :
        \/ \E k \in RouteKeys : ReconcileGet(w, k)
        \/ ReconcileStatusUpdate(w)
        \/ ReconcileList(w)
        \/ UpdateRoutesLock(w)
        \/ UpdateRoutesAssign(w)
        \/ UpdateRoutesUnlock(w)
        \/ ReconcileDone(w)

NextSettle ==
    \/ \E k \in RouteKeys : \E spec \in Catalogue(k) : ApplyRoute(k, spec)
    \/ \E k \in RouteKeys : DeleteRoute(k)
    \/ \E w \in Workers : \E k \in RouteKeys : ReconcileGet(w, k)
    \/ \E w \in Workers : ReconcileStatusUpdate(w)
    \/ \E w \in Workers : ReconcileStatusUpdateError(w)
    \/ \E w \in Workers : ReconcileList(w)
    \/ \E w \in Workers : ReconcileListError(w)
    \/ \E w \in Workers : UpdateRoutesLock(w)
    \/ \E w \in Workers : UpdateRoutesAssign(w)
    \/ \E w \in Workers : UpdateRoutesUnlock(w)
    \/ \E w \in Workers : ReconcileDone(w)

SpecSettle == InitSettle /\ [][NextSettle]_vars /\ WF_vars(WorkerStep)

(***************************************************************************)
(* The GatewayClass reconciler: the API server's GatewayClass resources    *)
(* and their writers, and GatewayClassReconciler.Reconcile one client call *)
(* at a time.                                                              *)
(***************************************************************************)
\* A write to class k makes the copy the worker fetched before it stale.
ClassMarkStale(k) ==
    IF gcrec.pc = "fetched" /\ gcrec.key = k
    THEN [gcrec EXCEPT !.stale = TRUE]
    ELSE gcrec

\* A user creates class k or replaces its spec; the API server counts the
\* generations of the spec.
ApplyClass(k, cn, params) ==
    /\ \/ ~classes[k].Exists
       \/ /\ <<classes[k].ControllerName, classes[k].ParametersRef>> # <<cn, params>>
          /\ classes[k].Generation < MaxGeneration
    /\ classes' = [classes EXCEPT ![k] =
                     IF classes[k].Exists
                     THEN [classes[k] EXCEPT !.ControllerName = cn,
                                             !.ParametersRef = params,
                                             !.Generation = @ + 1]
                     ELSE [Exists |-> TRUE, ControllerName |-> cn,
                           ParametersRef |-> params, Generation |-> 1,
                           Conditions |-> PendingClassConditions]]
    /\ gcrec' = ClassMarkStale(k)
    /\ UNCHANGED <<routes, systemVars, matcherVars, observed, gateways, service, gwrec, queue>>

\* A user deletes class k.
DeleteClass(k) ==
    /\ classes[k].Exists
    /\ classes' = [classes EXCEPT ![k] = AbsentClass]
    /\ gcrec' = ClassMarkStale(k)
    /\ UNCHANGED <<routes, systemVars, matcherVars, observed, gateways, service, gwrec, queue>>

\* Something other than this controller writes the status of class k.
OtherClassStatus(k) ==
    /\ classes[k].Exists
    /\ classes[k].Conditions # ForeignClassConditions
    /\ classes' = [classes EXCEPT ![k].Conditions = ForeignClassConditions]
    /\ gcrec' = ClassMarkStale(k)
    /\ UNCHANGED <<routes, systemVars, matcherVars, observed, gateways, service, gwrec, queue>>

\* The worker at the return of Reconcile, with the copy it had fetched.
ClassReturn(result) ==
    [gcrec EXCEPT !.pc = "returned", !.stale = FALSE, !.result = result]

\* The conditions a merging controller would write: the old ones kept.
classConditionsMerged(gc) ==
    Append(gc.Conditions,
           GenCondition("Accepted", "True", gc.Generation, "Accepted"))

\* Mutant of classConditions: the newest of the old conditions is kept in
\* front of the new one.
classConditionsKeepLast(gc) ==
    (IF Len(gc.Conditions) = 0 THEN <<>>
     ELSE <<gc.Conditions[Len(gc.Conditions)]>>)
    \o <<GenCondition("Accepted", "True", gc.Generation, "Accepted")>>

\* gc.Status.Conditions as Reconcile assigns it.
classConditions(gc) ==
    <<GenCondition("Accepted", "True", gc.Generation, "Accepted")>>

\* Mutant of ClassGet: the controller name of the class is not compared.
ClassGetAnyController(k) ==
    /\ gcrec.pc = "idle"
    /\ gcrec' =
         IF ~classes[k].Exists
         THEN [IdleClassWorker EXCEPT !.pc = "returned", !.key = k,
                                      !.result = "notfound"]
         ELSE [IdleClassWorker EXCEPT !.pc = "fetched", !.key = k,
                                      !.gc = classes[k]]
    /\ UNCHANGED <<routes, systemVars, matcherVars, observed, classes, gateways,
                   service, gwrec, queue>>

\* Reconcile, r.Get and the comparison of the controller name.
ClassGet(k) ==
    /\ gcrec.pc = "idle"
    /\ gcrec' =
         IF ~classes[k].Exists
         THEN [IdleClassWorker EXCEPT !.pc = "returned", !.key = k,
                                      !.result = "notfound"]
         ELSE IF classes[k].ControllerName # ControllerName
         THEN [IdleClassWorker EXCEPT !.pc = "returned", !.key = k,
                                      !.result = "ignored"]
         ELSE [IdleClassWorker EXCEPT !.pc = "fetched", !.key = k,
                                      !.gc = classes[k]]
    /\ UNCHANGED <<routes, systemVars, matcherVars, observed, classes, gateways,
                   service, gwrec, queue>>

\* r.Get fails with an error other than NotFound.
ClassGetError(k) ==
    /\ gcrec.pc = "idle"
    /\ gcrec' = [IdleClassWorker EXCEPT !.pc = "returned", !.key = k,
                                        !.result = "error"]
    /\ UNCHANGED <<routes, systemVars, matcherVars, observed, classes, gateways,
                   service, gwrec, queue>>

\* The assignment of gc.Status.Conditions and r.Status().Update of the
\* fetched copy.
ClassStatusUpdate ==
    /\ gcrec.pc = "fetched"
    /\ IF gcrec.stale \/ ~classes[gcrec.key].Exists
       THEN /\ gcrec' = ClassReturn("error")
            /\ UNCHANGED classes
       ELSE /\ classes' = [classes EXCEPT ![gcrec.key].Conditions =
                              classConditions(gcrec.gc)]
            /\ gcrec' = ClassReturn("accepted")
    /\ UNCHANGED <<routes, systemVars, matcherVars, observed, gateways, service, gwrec, queue>>

\* r.Status().Update fails for a reason of the API server's.
ClassStatusUpdateError ==
    /\ gcrec.pc = "fetched"
    /\ gcrec' = ClassReturn("error")
    /\ UNCHANGED <<routes, systemVars, matcherVars, observed, classes, gateways,
                   service, gwrec, queue>>

\* Reconcile has returned; the worker takes the next key of the queue.
ClassDone ==
    /\ gcrec.pc = "returned"
    /\ gcrec' = IdleClassWorker
    /\ UNCHANGED <<routes, systemVars, matcherVars, observed, classes, gateways,
                   service, gwrec, queue>>

ClassControllerNames == {ControllerName, OtherControllerName}

ParametersRefs == {Unset, Ptr("gari-params")}

InitClass ==
    /\ routes = <<>>
    /\ SystemIdle
    /\ MatcherIdle

NextClass ==
    \/ \E k \in ClassKeys : \E cn \in ClassControllerNames :
          \E params \in ParametersRefs : ApplyClass(k, cn, params)
    \/ \E k \in ClassKeys : DeleteClass(k)
    \/ \E k \in ClassKeys : OtherClassStatus(k)
    \/ \E k \in ClassKeys : ClassGet(k)
    \/ \E k \in ClassKeys : ClassGetError(k)
    \/ ClassStatusUpdate
    \/ ClassStatusUpdateError
    \/ ClassDone

SpecClass == InitClass /\ [][NextClass]_vars

(***************************************************************************)
(* The Gateway reconciler: the Gateway and GatewayClass resources, the     *)
(* gari-proxy Service, their writers, and GatewayReconciler.Reconcile one  *)
(* client call at a time.                                                  *)
(***************************************************************************)
\* A write to gateway k makes the copy the worker fetched before it stale.
GwMarkStale(k) ==
    IF gwrec.pc \in {"fetched", "classok", "hasip"} /\ gwrec.key = k
    THEN [gwrec EXCEPT !.stale = TRUE]
    ELSE gwrec

\* A user creates gateway k or replaces its spec.
ApplyGateway(k, cls) ==
    /\ ~gateways[k].Exists \/ gateways[k].Generation < MaxGeneration
    /\ gateways' = [gateways EXCEPT ![k] =
                      IF gateways[k].Exists
                      THEN [gateways[k] EXCEPT !.GatewayClassName = cls,
                                               !.Generation = @ + 1]
                      ELSE [Exists |-> TRUE, GatewayClassName |-> cls,
                            Generation |-> 1, Conditions |-> <<>>,
                            Addresses |-> <<>>]]
    /\ gwrec' = GwMarkStale(k)
    /\ queue' = Added(k)
    /\ UNCHANGED <<routes, systemVars, matcherVars, observed, classes, service, gcrec>>

\* A user deletes gateway k.
DeleteGateway(k) ==
    /\ gateways[k].Exists
    /\ gateways' = [gateways EXCEPT ![k] = AbsentGateway]
    /\ gwrec' = GwMarkStale(k)
    /\ queue' = Added(k)
    /\ UNCHANGED <<routes, systemVars, matcherVars, observed, classes, service, gcrec>>

\* The gari-proxy Service is created, deleted, or its load balancer status
\* is written by the cloud provider.
SetService(s) ==
    /\ s # service
    /\ service' = s
    /\ UNCHANGED <<routes, systemVars, matcherVars, observed, classes, gateways,
                   gcrec, gwrec, queue>>

\* The worker at the return of Reconcile with ctrl.Result{Requeue: requeue}
\* and an error or nil.
GwReturn(label, requeue, err) ==
    [gwrec EXCEPT !.pc = "returned", !.stale = FALSE, !.result = label,
                  !.requeue = requeue, !.err = err]

\* The GatewayClass of a name, as r.Get finds it.
ClassOf(name) == IF name \in ClassKeys THEN classes[name] ELSE AbsentClass

\* An address taken from the last ingress of the load balancer.
lastIngressIP(svc) ==
    IF Len(svc.Ingress) > 0 THEN svc.Ingress[Len(svc.Ingress)].IP ELSE ""

\* ip as Reconcile computes it from svc.Status.LoadBalancer.Ingress.
firstIngressIP(svc) ==
    IF Len(svc.Ingress) > 0 THEN svc.Ingress[1].IP ELSE ""

\* A reconciler that never waits for the address.
addressMissingNever(ip) == FALSE

\* The test that sends Reconcile to its requeue.
addressMissing(ip) == ip = ""

\* gw.Status.Conditions as Reconcile assigns it.
gatewayConditions(gw) ==
    <<GenCondition("Programmed", "True", gw.Generation, "Programmed"),
      GenCondition("Accepted", "True", gw.Generation, "Accepted")>>

\* gw.Status.Addresses as Reconcile assigns it.
gatewayAddresses(ip) == <<[Type |-> "IPAddress", Value |-> ip]>>

\* Reconcile and r.Get of the Gateway.
GwGet(k) ==
    /\ gwrec.pc = "idle"
    /\ Queued(k)
    /\ queue' = Taken(k)
    /\ gwrec' =
         IF gateways[k].Exists
         THEN [IdleGatewayWorker EXCEPT !.pc = "fetched", !.key = k,
                                        !.gw = gateways[k]]
         ELSE [IdleGatewayWorker EXCEPT !.pc = "returned", !.key = k,
                                        !.result = "notfound"]
    /\ UNCHANGED <<routes, systemVars, matcherVars, observed, classes, gateways,
                   service, gcrec>>

\* r.Get of the Gateway fails with an error other than NotFound.
GwGetError(k) ==
    /\ gwrec.pc = "idle"
    /\ Queued(k)
    /\ gwrec' = [IdleGatewayWorker EXCEPT !.pc = "returned", !.key = k,
                                          !.result = "error", !.err = TRUE]
    /\ UNCHANGED <<routes, systemVars, matcherVars, observed, classes, gateways,
                   service, gcrec, queue>>

\* Mutant of GwGetClass: the NotFound of the class is returned as an error.
GwGetClassNotFoundFails ==
    /\ gwrec.pc = "fetched"
    /\ LET gc == ClassOf(gwrec.gw.GatewayClassName) IN
         gwrec' =
           IF ~gc.Exists THEN GwReturn("noclass", FALSE, TRUE)
           ELSE IF gc.ControllerName # ControllerName
           THEN GwReturn("ignored", FALSE, FALSE)
           ELSE [gwrec EXCEPT !.pc = "classok"]
    /\ UNCHANGED <<routes, systemVars, matcherVars, observed, classes, gateways,
                   service, gcrec, queue>>

\* r.Get of the GatewayClass and the comparison of the controller name.
GwGetClass ==
    /\ gwrec.pc = "fetched"
    /\ LET gc == ClassOf(gwrec.gw.GatewayClassName) IN
         gwrec' =
           IF ~gc.Exists THEN GwReturn("noclass", FALSE, FALSE)
           ELSE IF gc.ControllerName # ControllerName
           THEN GwReturn("ignored", FALSE, FALSE)
           ELSE [gwrec EXCEPT !.pc = "classok"]
    /\ UNCHANGED <<routes, systemVars, matcherVars, observed, classes, gateways,
                   service, gcrec, queue>>

\* r.Get of the GatewayClass fails with an error other than NotFound.
GwGetClassError ==
    /\ gwrec.pc = "fetched"
    /\ gwrec' = GwReturn("error", FALSE, TRUE)
    /\ queue' = Added(gwrec.key)
    /\ UNCHANGED <<routes, systemVars, matcherVars, observed, classes, gateways,
                   service, gcrec>>

\* Mutant of GwGetService: a Service that does not exist is waited for like
\* an address that is not provisioned yet.
GwGetServiceAbsentWaits ==
    /\ gwrec.pc = "classok"
    /\ gwrec' =
         LET read == [gwrec EXCEPT !.svc = service,
                                   !.ip = firstIngressIP(service)]
         IN  IF addressMissing(read.ip)
             THEN [read EXCEPT !.pc = "returned", !.stale = FALSE,
                               !.result = "requeue", !.requeue = TRUE]
             ELSE [read EXCEPT !.pc = "hasip"]
    /\ queue' = IF gwrec'.pc = "returned" THEN Added(gwrec.key) ELSE queue
    /\ UNCHANGED <<routes, systemVars, matcherVars, observed, classes, gateways,
                   service, gcrec>>

\* r.Get of the gari-proxy Service, the choice of ip, and the requeue.
GwGetService ==
    /\ gwrec.pc = "classok"
    /\ gwrec' =
         IF ~service.Exists THEN GwReturn("error", FALSE, TRUE)
         ELSE LET read == [gwrec EXCEPT !.svc = service,
                                        !.ip = firstIngressIP(service)]
              IN  IF addressMissing(read.ip)
                  THEN [read EXCEPT !.pc = "returned", !.stale = FALSE,
                                    !.result = "requeue", !.requeue = TRUE]
                  ELSE [read EXCEPT !.pc = "hasip"]
    /\ queue' = IF gwrec'.pc = "returned" THEN Added(gwrec.key) ELSE queue
    /\ UNCHANGED <<routes, systemVars, matcherVars, observed, classes, gateways,
                   service, gcrec>>

\* r.Get of the Service fails with an error other than NotFound.
GwGetServiceError ==
    /\ gwrec.pc = "classok"
    /\ gwrec' = GwReturn("error", FALSE, TRUE)
    /\ queue' = Added(gwrec.key)
    /\ UNCHANGED <<routes, systemVars, matcherVars, observed, classes, gateways,
                   service, gcrec>>

\* The assignment of gw.Status and r.Status().Update of the fetched copy.
GwStatusUpdate ==
    /\ gwrec.pc = "hasip"
    /\ IF gwrec.stale \/ ~gateways[gwrec.key].Exists
       THEN /\ gwrec' = GwReturn("error", FALSE, TRUE)
            /\ queue' = Added(gwrec.key)
            /\ UNCHANGED gateways
       ELSE /\ gateways' = [gateways EXCEPT
                              ![gwrec.key].Conditions = gatewayConditions(gwrec.gw),
                              ![gwrec.key].Addresses = gatewayAddresses(gwrec.ip)]
            /\ gwrec' = GwReturn("programmed", FALSE, FALSE)
            /\ \E event \in IF gateways' = gateways THEN BOOLEAN ELSE {TRUE} :
                   queue' = IF event THEN Added(gwrec.key) ELSE queue
    /\ UNCHANGED <<routes, systemVars, matcherVars, observed, classes, service, gcrec>>

\* r.Status().Update fails for a reason of the API server's.
GwStatusUpdateError ==
    /\ gwrec.pc = "hasip"
    /\ gwrec' = GwReturn("error", FALSE, TRUE)
    /\ queue' = Added(gwrec.key)
    /\ UNCHANGED <<routes, systemVars, matcherVars, observed, classes, gateways,
                   service, gcrec>>

\* Reconcile has returned; the worker takes the next key of the queue.
GwDone ==
    /\ gwrec.pc = "returned"
    /\ gwrec' = IdleGatewayWorker
    /\ UNCHANGED <<routes, systemVars, matcherVars, observed, classes, gateways,
                   service, gcrec, queue>>

InitGateway ==
    /\ routes = <<>>
    /\ SystemIdle
    /\ MatcherIdle

NextGateway ==
    \/ \E k \in ClassKeys : \E cn \in ClassControllerNames :
          \E params \in ParametersRefs : ApplyClass(k, cn, params)
    \/ \E k \in ClassKeys : DeleteClass(k)
    \/ \E k \in GatewayKeys : \E cls \in GatewayClassNames : ApplyGateway(k, cls)
    \/ \E k \in GatewayKeys : DeleteGateway(k)
    \/ \E s \in ServiceStates : SetService(s)
    \/ \E k \in GatewayKeys : GwGet(k)
    \/ \E k \in GatewayKeys : GwGetError(k)
    \/ GwGetClass
    \/ GwGetClassError
    \/ GwGetService
    \/ GwGetServiceError
    \/ GwStatusUpdate
    \/ GwStatusUpdateError
    \/ GwDone

SpecGateway == InitGateway /\ [][NextGateway]_vars

(***************************************************************************)
(* The programming specification: one gateway of a class of this           *)
(* implementation, the gari-proxy Service whose load balancer status the   *)
(* cloud provider writes, and the gateway controller fed by its work       *)
(* queue: the add event, the requeues and error retries of Reconcile, the  *)
(* update events of its own status writes and the resync of the informer.  *)
(***************************************************************************)
ProgramServices ==
    ServiceStates \cup {[Exists |-> TRUE, Ingress |-> <<Ingress("10.0.0.2", "")>>]}

\* The periodic resync of the Gateway informer hands every gateway of its
\* store to the controller's handler, which adds its key to the queue.
GwResync(k) ==
    /\ queue.tracked
    /\ gateways[k].Exists
    /\ k \notin queue.keys
    /\ queue' = Added(k)
    /\ UNCHANGED <<routes, systemVars, matcherVars, observed, classes, gateways,
                   service, gcrec, gwrec>>

\* The steps of Reconcile that the client's calls do not fail.
GatewayWorkerStep ==
    \/ \E k \in GatewayKeys : GwGet(k)
    \/ GwGetClass
    \/ GwGetService
    \/ GwDone

InitProgram ==
    /\ routes = <<>>
    /\ mu = FreeMutex
    /\ store = [k \in RouteKeys |-> Absent]
    /\ rec = [w \in Workers |-> IdleWorker]
    /\ rd = [r \in Readers |-> IdleReader]
    /\ published = {<<>>}
    /\ observed = NoObserved
    /\ MatcherIdle
    /\ classes = [k \in ClassKeys |->
                    [Exists |-> TRUE, ControllerName |-> ControllerName,
                     ParametersRef |-> Unset, Generation |-> 1,
                     Conditions |-> PendingClassConditions]]
    /\ gateways = [k \in GatewayKeys |->
                     [Exists |-> TRUE, GatewayClassName |-> "gc1",
                      Generation |-> 1, Conditions |-> <<>>,
                      Addresses |-> <<>>]]
    /\ service \in ProgramServices
    /\ gcrec = IdleClassWorker
    /\ gwrec = IdleGatewayWorker
    /\ queue = [tracked |-> TRUE, keys |-> GatewayKeys]

NextProgram ==
    \/ \E s \in ProgramServices : SetService(s)
    \/ \E k \in GatewayKeys : GwResync(k)
    \/ \E k \in GatewayKeys : GwGet(k)
    \/ GwGetClass
    \/ GwGetService
    \/ GwStatusUpdate
    \/ GwStatusUpdateError
    \/ GwDone

SpecProgram ==
    /\ InitProgram
    /\ [][NextProgram]_vars
    /\ WF_vars(GatewayWorkerStep)
    /\ SF_vars(GwStatusUpdate)
    /\ WF_vars(\E k \in GatewayKeys : GwResync(k))

(***************************************************************************)
(* The concurrent specification: the route controller with more than one   *)
(* worker, as the work queue permits for different keys, on a store whose  *)
(* two routes are there from the start and change only through the status  *)
(* writes of the reconciles.                                               *)
(***************************************************************************)
ConcurrentReconciles == 2

ConcurrentWorkers == 1..ConcurrentReconciles

InitConcurrent ==
    /\ routes = <<>>
    /\ mu = FreeMutex
    /\ store = [k \in RouteKeys |->
                  IF k = "r1" THEN Resource(SpecValid, <<>>)
                  ELSE Resource(SpecPlain, <<>>)]
    /\ rec = [w \in ConcurrentWorkers |-> IdleWorker]
    /\ rd = [r \in Readers |-> IdleReader]
    /\ published = {<<>>}
    /\ observed = NoObserved
    /\ queue = [tracked |-> TRUE, keys |-> RouteKeys]
    /\ GatewayIdle
    /\ MatcherIdle

NextConcurrent ==
    \/ \E w \in ConcurrentWorkers : \E k \in RouteKeys : ReconcileGet(w, k)
    \/ \E w \in ConcurrentWorkers : ReconcileStatusUpdate(w)
    \/ \E w \in ConcurrentWorkers : ReconcileList(w)
    \/ \E w \in ConcurrentWorkers : UpdateRoutesWait(w)
    \/ \E w \in ConcurrentWorkers : UpdateRoutesLock(w)
    \/ \E w \in ConcurrentWorkers : UpdateRoutesAssign(w)
    \/ \E w \in ConcurrentWorkers : UpdateRoutesUnlock(w)
    \/ \E w \in ConcurrentWorkers : ReconcileDone(w)

SpecConcurrent == InitConcurrent /\ [][NextConcurrent]_vars

(***************************************************************************)
(* The manager specification: main starts the proxy and the three          *)
(* controllers in one process; they run side by side on one route, one     *)
(* class, one gateway and a provisioned Service, all of them created and   *)
(* deleted but never edited, while one request is answered.                *)
(***************************************************************************)
ManagerRoutes == {"r1"}

ManagerRequest == [Host |-> "example.com", Path |-> S_foo, Header |-> NoHeader]

ProvisionedService == [Exists |-> TRUE, Ingress |-> <<Ingress("10.0.0.1", "")>>]

InitManager ==
    /\ routes = <<>>
    /\ mu = FreeMutex
    /\ store = [k \in RouteKeys |-> Absent]
    /\ rec = [w \in Workers |-> IdleWorker]
    /\ rd = [r \in Readers |-> IdleReader]
    /\ published = {<<>>}
    /\ observed = NoObserved
    /\ queue = NoQueue
    /\ classes = [k \in ClassKeys |-> AbsentClass]
    /\ gateways = [k \in GatewayKeys |-> AbsentGateway]
    /\ service = ProvisionedService
    /\ gcrec = IdleClassWorker
    /\ gwrec = IdleGatewayWorker
    /\ req = ManagerRequest
    /\ resp = NoResponse
    /\ cand = NoCand
    /\ better = NoBetter

NextManager ==
    \/ \E k \in ManagerRoutes : ApplyRoute(k, SpecValid)
    \/ \E k \in ManagerRoutes : DeleteRoute(k)
    \/ \E w \in Workers : \E k \in ManagerRoutes : ReconcileGet(w, k)
    \/ \E w \in Workers : ReconcileStatusUpdate(w)
    \/ \E w \in Workers : ReconcileList(w)
    \/ \E w \in Workers : UpdateRoutesLock(w)
    \/ \E w \in Workers : UpdateRoutesAssign(w)
    \/ \E w \in Workers : UpdateRoutesUnlock(w)
    \/ \E w \in Workers : ReconcileDone(w)
    \/ ServeHTTP
    \/ \E k \in ClassKeys : \E cn \in ClassControllerNames :
          ~classes[k].Exists /\ ApplyClass(k, cn, Unset)
    \/ \E k \in ClassKeys : DeleteClass(k)
    \/ \E k \in ClassKeys : ClassGet(k)
    \/ ClassStatusUpdate
    \/ ClassDone
    \/ \E k \in GatewayKeys : \E cls \in ClassKeys :
          ~gateways[k].Exists /\ ApplyGateway(k, cls)
    \/ \E k \in GatewayKeys : DeleteGateway(k)
    \/ \E k \in GatewayKeys : GwGet(k)
    \/ GwGetClass
    \/ GwGetService
    \/ GwStatusUpdate
    \/ GwDone

SpecManager == InitManager /\ [][NextManager]_vars

(***************************************************************************)
(* The header specification: the table is the compilation of one accepted  *)
(* route with one match of generated header clauses, and one request with  *)
(* generated header values is served.                                      *)
(***************************************************************************)
MaxHeaders == 2

HeaderChoices ==
    {GwHeader(Ptr("Exact"), "x-a", "1"),
     GwHeader(Ptr("RegularExpression"), "x-a", "1|2"),
     GwHeader(Ptr("RegularExpression"), "x-a", "("),
     GwHeader(Unset, "x-b", "21"),
     GwHeader(Ptr("RegularExpression"), "x-b", "^1")}

HeaderLists == UNION {[1..n -> HeaderChoices] : n \in 0..MaxHeaders}

HeaderSpec(hs) ==
    GwSpec(<<"gw1">>, <<"example.com">>,
           <<GwRule(<<GwMatch(GwNoPath, hs)>>,
                    <<GwBackendRef(Unset, "svcA", Ptr(80))>>)>>)

HeaderRequests ==
    {[Host |-> "example.com", Path |-> S_foo, Header |-> h] :
        h \in UNION {[names -> {"1", "2", "1|2", "21", "^1"}] :
                        names \in SUBSET {"X-A", "X-B"}}}

InitHeader ==
    /\ \E hs \in HeaderLists :
           routes = extractRoutes(<<Item("r1", Resource(HeaderSpec(hs),
                                                        OursAccepted(HeaderSpec(hs))))>>)
    /\ req \in HeaderRequests
    /\ resp = NoResponse
    /\ cand = NoCand
    /\ better = NoBetter
    /\ SystemIdle

NextHeader == ServeHTTP

SpecHeader == InitHeader /\ [][NextHeader]_vars

(***************************************************************************)
(* Vocabulary of the properties of the matcher.                            *)
(***************************************************************************)
\* The host rule of the specification, stated on the list as a set.
HostAdmitted(hostnames, host) ==
    \/ hostnames = <<>>
    \/ "*" \in {hostnames[i] : i \in DOMAIN hostnames}
    \/ host \in {hostnames[i] : i \in DOMAIN hostnames}

\* The precedence key: path type weight, path value length, header clauses.
KeyOf(m) == <<Weight(getPathMatchType(m)), getPathLen(m), Len(m.Headers)>>

KeyLess(a, b) ==
    \/ a[1] < b[1]
    \/ a[1] = b[1] /\ a[2] < b[2]
    \/ a[1] = b[1] /\ a[2] = b[2] /\ a[3] < b[3]

\* The candidates of a request in a table: the satisfied matches and the
\* rules without matches of the routes that admit the request's host.
\* mi = 0 marks a rule without matches; its key is that of a match with no
\* path clause and no header clause.
Candidates(table, r) ==
    UNION {UNION {
        {[ri |-> ri, ki |-> ki, mi |-> mi,
          key |-> KeyOf(table[ri].Rules[ki].Matches[mi]),
          backend |-> table[ri].Rules[ki].Backend] :
            mi \in {n \in 1..Len(table[ri].Rules[ki].Matches) :
                       matchMatch(table[ri].Rules[ki].Matches[n], r)}}
        \cup (IF Len(table[ri].Rules[ki].Matches) = 0
                THEN {[ri |-> ri, ki |-> ki, mi |-> 0,
                       key |-> KeyOf(EmptyRouteMatch),
                       backend |-> table[ri].Rules[ki].Backend]}
                ELSE {}) :
        ki \in 1..Len(table[ri].Rules)} :
        ri \in {n \in 1..Len(table) : HostAdmitted(table[n].Hostnames, r.Host)}}

Served == resp # NoResponse

\* The table is one route that admits every host, with one rule of one match
\* that has a path clause and no header clause.
SinglePathClause ==
    /\ Len(routes) = 1
    /\ routes[1].Hostnames = <<>>
    /\ Len(routes[1].Rules) = 1
    /\ Len(routes[1].Rules[1].Matches) = 1
    /\ ~routes[1].Rules[1].Matches[1].Path.Nil
    /\ routes[1].Rules[1].Matches[1].Headers = <<>>

TheClause == routes[1].Rules[1].Matches[1].Path

StartsWith(p, q) == Len(p) >= Len(q) /\ SubSeq(p, 1, Len(q)) = q

(***************************************************************************)
(* C1: when ServeHTTP forwards, the backend is that of a candidate of the  *)
(* request (a satisfied match or a rule without matches, in a route that   *)
(* admits the host) and no candidate has a strictly greater key            *)
(* (weight, path length, header clauses).                                  *)
(***************************************************************************)
C1_BestCandidateWins ==
    resp.Status = "forward" =>
        \E c \in Candidates(routes, req) :
            /\ Forwarded(c.backend) = resp
            /\ \A d \in Candidates(routes, req) : ~KeyLess(c.key, d.key)

(***************************************************************************)
(* C5: a rule without matches supplies the backend only if no match of any *)
(* rule in a route that admits the host is satisfied by the request.       *)
(***************************************************************************)
UniversalWon ==
    \E c \in Candidates(routes, req) : c.mi = 0 /\ Forwarded(c.backend) = resp

C5_UniversalOnlyWithoutMatch ==
    UniversalWon => ~\E d \in Candidates(routes, req) : d.mi > 0

(***************************************************************************)
(* C6: a PathPrefix clause whose value v does not end in "/" is satisfied  *)
(* by the path p exactly when p = v or p starts with v followed by "/".    *)
(***************************************************************************)
C6_PathPrefixWholeSegments ==
    (/\ Served
     /\ SinglePathClause
     /\ TheClause.Type = PathMatchTypePathPrefix
     /\ (Len(TheClause.Value) = 0 \/ TheClause.Value[Len(TheClause.Value)] # "/"))
    => (resp = Forwarded(routes[1].Rules[1].Backend)
            <=> \/ req.Path = TheClause.Value
                \/ StartsWith(req.Path, TheClause.Value \o <<"/">>))

C6_Witness ==
    /\ Served
    /\ SinglePathClause
    /\ TheClause = PathMatch(PathMatchTypePathPrefix, S_foo)
    /\ req.Path = S_foobar
    /\ resp = NotFound

(***************************************************************************)
(* C7: an Exact clause is satisfied only by the path equal to its value:   *)
(* the table of one Exact rule forwards the equal path and answers 404 to  *)
(* every other path; and whenever a rule all of whose matches are Exact    *)
(* supplies the backend, one of them has the request path as its value.    *)
(***************************************************************************)
C7_ExactRequiresEquality ==
    /\ (Served /\ SinglePathClause /\ TheClause.Type = PathMatchTypeExact)
        => /\ req.Path = TheClause.Value
                => resp = Forwarded(routes[1].Rules[1].Backend)
           /\ req.Path # TheClause.Value => resp = NotFound
    /\ \A ri \in 1..Len(routes) : \A ki \in 1..Len(routes[ri].Rules) :
        LET rule == routes[ri].Rules[ki]
        IN (/\ resp = Forwarded(rule.Backend)
            /\ Len(rule.Matches) > 0
            /\ \A mi \in 1..Len(rule.Matches) :
                   /\ ~rule.Matches[mi].Path.Nil
                   /\ rule.Matches[mi].Path.Type = PathMatchTypeExact)
           => \E mi \in 1..Len(rule.Matches) :
                   rule.Matches[mi].Path.Value = req.Path

C7_Witness ==
    /\ Served
    /\ SinglePathClause
    /\ TheClause = PathMatch(PathMatchTypeExact, S_foo)
    /\ req.Path = S_foot
    /\ resp = NotFound

(***************************************************************************)
(* C8: the rules of a route are considered exactly when its host list is   *)
(* empty, holds "*" or holds the request host: a forwarded request got its *)
(* backend from such a route, and a candidate in such a route is never     *)
(* passed over for a 404.                                                  *)
(***************************************************************************)
C8_HostnameAdmission ==
    /\ resp.Status = "forward" =>
        \E ri \in 1..Len(routes) :
            /\ HostAdmitted(routes[ri].Hostnames, req.Host)
            /\ \E ki \in 1..Len(routes[ri].Rules) :
                   Forwarded(routes[ri].Rules[ki].Backend) = resp
    /\ \A ri \in 1..Len(routes) :
        (/\ Served
         /\ HostAdmitted(routes[ri].Hostnames, req.Host)
         /\ \E c \in Candidates(routes, req) : c.ri = ri)
        => resp.Status = "forward"

C8_Witness ==
    /\ resp = NotFound
    /\ req.Host = "a.example.com"
    /\ Len(routes) = 2
    /\ routes[1].Hostnames = <<"*.example.com">>
    /\ routes[2].Hostnames = <<"example.com">>
    /\ \A ri \in 1..2 : Len(routes[ri].Rules) = 1 /\ Len(routes[ri].Rules[1].Matches) = 0

(***************************************************************************)
(* C9: a served request is either forwarded to one backend or answered     *)
(* with 404; it is forwarded exactly when it has a candidate, to the       *)
(* backend of one rule of the table.                                       *)
(***************************************************************************)
C9_ForwardIffCandidate ==
    Served =>
        /\ resp.Status \in {"forward", "404"}
        /\ resp.Status = "forward" <=> Candidates(routes, req) # {}
        /\ resp.Status = "404" <=> Candidates(routes, req) = {}
        /\ resp.Status = "404" => resp = NotFound
        /\ resp.Status = "forward" =>
               \E c \in Candidates(routes, req) : resp = Forwarded(c.backend)

C9_Witness ==
    /\ resp = NotFound
    /\ Len(routes) = 2
    /\ \A ri \in 1..2 : Len(routes[ri].Rules) > 0

(***************************************************************************)
(* C10: isBetterMatch is a strict partial order (irreflexive, asymmetric,  *)
(* transitive) and a match of greater path type weight is better whatever  *)
(* the path lengths and header clause counts.                              *)
(***************************************************************************)
C10_StrictPartialOrder ==
    better # <<>> =>
        \A i \in 1..3 : \A j \in 1..3 : \A k \in 1..3 :
            /\ ~better[i][i]
            /\ better[i][j] => ~better[j][i]
            /\ (better[i][j] /\ better[j][k]) => better[i][k]
            /\ Weight(getPathMatchType(cand[i])) > Weight(getPathMatchType(cand[j]))
                   => better[i][j]

C10_Witness ==
    /\ better # <<>>
    /\ better[1][2]
    /\ better[2][3]
    /\ better[1][3]
    /\ Weight(getPathMatchType(cand[1])) > Weight(getPathMatchType(cand[2]))
    /\ getPathLen(cand[1]) < getPathLen(cand[2])
    /\ Len(cand[1].Headers) < Len(cand[2].Headers)

(***************************************************************************)
(* Properties of the system.                                               *)
(***************************************************************************)
IsPrefix(s, t) ==
    /\ Len(s) <= Len(t)
    /\ \A i \in DOMAIN s : s[i] = t[i]

\* C2: under every interleaving of UpdateRoutes with ServeHTTP, the routes a
\* request has examined so far are the leading routes of one table that was
\* assigned whole to the handle (or of the initial empty table), and its
\* response is the matcher's answer on the whole of that one table: never a
\* mixture of two publishes, never a partly built table.
C2_NoTornRead ==
    \A r \in Readers :
        rd[r].pc \in {"captured", "scan", "responded"} =>
            \E table \in published :
                /\ IsPrefix(rd[r].seen, table)
                /\ rd[r].pc = "responded" =>
                       /\ rd[r].seen = table
                       /\ rd[r].resp = Resolve(table, rd[r].req)

\* A request answered from a two-route table that was replaced while the
\* request was being matched.
C2_Witness ==
    \E r \in Readers :
        /\ rd[r].pc = "responded"
        /\ Len(rd[r].seen) = 2
        /\ rd[r].routes # routes
        /\ rd[r].resp.Status = "forward"

\* Route k, in some version of its spec, is compiled into the table.
AppearsInTable(k, table) ==
    \E i \in DOMAIN table :
        \E spec \in Catalogue(k) :
            table[i] = compileRoute(Item(k, Resource(spec, <<>>)))

\* Every declared parent attachment carries this controller's Accepted =
\* False with reason UnsupportedValue.
RejectedOnEveryParent(res) ==
    /\ Len(res.Parents) = Len(res.Spec.ParentRefs)
    /\ \A i \in DOMAIN res.Parents :
           /\ res.Parents[i].ParentRef = res.Spec.ParentRefs[i]
           /\ res.Parents[i].ControllerName = ControllerName
           /\ Condition("Accepted", "False", "UnsupportedValue")
                  \in {res.Parents[i].Conditions[j] :
                          j \in DOMAIN res.Parents[i].Conditions}

\* The step in which worker w's reconcile of a route with an invalid header
\* pattern completes.
RejectedReturn(w) ==
    /\ rec[w].pc = "fetched"
    /\ ~rec[w].valid
    /\ rec'[w].pc = "returned"
    /\ rec'[w].result = "rejected"

\* C3: when the reconcile of a route whose RegularExpression header pattern
\* does not compile completes, the route carries Accepted = False with reason
\* UnsupportedValue on every declared parent, and no version of the route is
\* in the table the proxy holds, even if an earlier valid version had been
\* compiled into it.
C3_InvalidRouteExcluded ==
    [][\A w \in Workers :
          RejectedReturn(w) =>
              /\ RejectedOnEveryParent(store'[rec[w].key])
              /\ ~AppearsInTable(rec[w].key, routes')]_vars

\* The status of the resource says: accepted by this implementation.
DeclaredAccepted(item) ==
    {ps \in {item.Parents[i] : i \in DOMAIN item.Parents} :
        /\ ps.ControllerName = ControllerName
        /\ \E c \in {ps.Conditions[j] : j \in DOMAIN ps.Conditions} :
               c.Type = "Accepted" /\ c.Status = "True"} # {}

\* C4: the table a rebuild has just assigned holds the compiled route of a
\* listed resource if and only if the resource's status has a parent entry of
\* this controller whose Accepted condition is True, and holds nothing else.
C4_TableHoldsExactlyAccepted ==
    \A w \in Workers :
        rec[w].pc = "assigned" =>
            /\ \A i \in DOMAIN rec[w].list :
                   DeclaredAccepted(rec[w].list[i]) <=>
                       \E j \in DOMAIN routes :
                           routes[j] = compileRoute(rec[w].list[i])
            /\ Len(routes) =
                   Cardinality({i \in DOMAIN rec[w].list :
                                   DeclaredAccepted(rec[w].list[i])})

\* A rebuild over a listing with a route this controller accepted and a
\* route only another controller accepted.
C4_Witness ==
    \E w \in Workers :
        /\ rec[w].pc = "assigned"
        /\ \E i, j \in DOMAIN rec[w].list :
               /\ DeclaredAccepted(rec[w].list[i])
               /\ ~DeclaredAccepted(rec[w].list[j])
               /\ rec[w].list[j].Parents # <<>>
               /\ \A n \in DOMAIN rec[w].list[j].Parents :
                      rec[w].list[j].Parents[n].ControllerName = OtherControllerName

(***************************************************************************)
(* Properties of the matcher, continued.                                   *)
(***************************************************************************)
\* Table iteration order: route, then rule, then match.
Earlier(c, d) ==
    \/ c.ri < d.ri
    \/ c.ri = d.ri /\ c.ki < d.ki
    \/ c.ri = d.ri /\ c.ki = d.ki /\ c.mi < d.mi

\* Two candidates of the same kind (satisfied matches, or rules without
\* matches) that are equal on the three keys.
Tied(c, d) == (c.mi = 0) = (d.mi = 0) /\ c.key = d.key

C12_SameTableSameAnswer ==
    \A r \in Readers :
        (/\ rd[r].pc = "responded"
         /\ ~observed.Nil
         /\ observed.routes = rd[r].routes
         /\ observed.req = rd[r].req)
            => rd[r].resp = observed.resp

\* A request is answered like the remembered one from an equal two-route
\* table, after a different table had been published in between.
C12_Witness ==
    \E r \in Readers :
        /\ rd[r].pc = "responded"
        /\ ~observed.Nil
        /\ observed.routes = rd[r].routes
        /\ observed.req = rd[r].req
        /\ Len(rd[r].routes) = 2
        /\ rd[r].resp.Status = "forward"
        /\ rd[r].resp = observed.resp
        /\ routes # rd[r].routes

(***************************************************************************)
(* Properties of the compilation of routes into a table.                   *)
(***************************************************************************)
\* A backend reference the compilation can use: a Service, or no kind, with
\* a port.
Qualifying(ref) == ref.Kind \in {Unset, Ptr("Service")} /\ ref.Port # UnsetPort

HasQualifying(rule) ==
    \E j \in DOMAIN rule.BackendRefs : Qualifying(rule.BackendRefs[j])

\* The index of the first qualifying reference of a rule that has one.
FirstQualifying(rule) ==
    CHOOSE j \in DOMAIN rule.BackendRefs :
        /\ Qualifying(rule.BackendRefs[j])
        /\ \A n \in 1..(j - 1) : ~Qualifying(rule.BackendRefs[n])

\* The listed resources the status declares accepted, in list order, and the
\* rules with a qualifying reference of one of them, in declared order.
AcceptedOf(list) == SelectSeq(list, DeclaredAccepted)

UsableRules(item) == SelectSeq(item.Spec.Rules, HasQualifying)

\* A worker has just assigned the table it built from its listing.
JustAssigned(w) == rec[w].pc = "assigned" /\ routes = rec[w].newRoutes

\* The table has one route per accepted resource of the listing, and each
\* route one rule per source rule with a qualifying reference.
SameShape(table, list) ==
    /\ Len(table) = Len(AcceptedOf(list))
    /\ \A i \in DOMAIN table :
           Len(table[i].Rules) = Len(UsableRules(AcceptedOf(list)[i]))

\* C13: in an assigned table, the backend of every compiled rule is that of
\* the first reference of its source rule, in declared order, whose kind is
\* unset or "Service" and whose port is set: the port is the reference's
\* port and the host is "<name>.<namespace>.svc.cluster.local".
C13_FirstQualifyingBackend ==
    \A w \in Workers :
        rec[w].pc = "assigned" =>
            /\ SameShape(routes, rec[w].list)
            /\ \A i \in DOMAIN routes :
                   \A k \in DOMAIN routes[i].Rules :
                       LET item == AcceptedOf(rec[w].list)[i]
                           rule == UsableRules(item)[k]
                           ref == rule.BackendRefs[FirstQualifying(rule)]
                       IN  /\ routes[i].Rules[k].Backend.Port = ref.Port.V
                           /\ routes[i].Rules[k].Backend.Host =
                                  ref.Name \o "." \o item.Namespace
                                           \o ".svc.cluster.local"

\* A table was assigned that compiles a rule whose two references both
\* qualify, and a rule whose first reference does not qualify and whose
\* second does.
C13_Witness ==
    \E w \in Workers :
        /\ JustAssigned(w)
        /\ \E i \in DOMAIN AcceptedOf(rec[w].list) :
               \E k \in DOMAIN UsableRules(AcceptedOf(rec[w].list)[i]) :
                   LET refs == UsableRules(AcceptedOf(rec[w].list)[i])[k].BackendRefs
                   IN  /\ Len(refs) = 2
                       /\ Qualifying(refs[1]) /\ Qualifying(refs[2])
                       /\ refs[1] # refs[2]
        /\ \E i \in DOMAIN AcceptedOf(rec[w].list) :
               \E k \in DOMAIN UsableRules(AcceptedOf(rec[w].list)[i]) :
                   LET refs == UsableRules(AcceptedOf(rec[w].list)[i])[k].BackendRefs
                   IN  Len(refs) = 2 /\ ~Qualifying(refs[1])

\* The compiled path clause is the source's, with PathPrefix for no type.
PathCopied(src, compiled) ==
    IF src.Nil THEN compiled.Nil
    ELSE /\ ~compiled.Nil
         /\ compiled.Value = src.Value
         /\ compiled.Type = IF src.Type.Nil THEN "PathPrefix" ELSE src.Type.V

\* C14: an assigned table has exactly one route per accepted resource of the
\* listing, in list order, with the resource's hostnames in declared order;
\* every compiled rule has its source rule's matches in declared order,
\* each path clause with the same type and value, and PathPrefix where the
\* source gives no type.
C14_TableMirrorsList ==
    \A w \in Workers :
        rec[w].pc = "assigned" =>
            /\ SameShape(routes, rec[w].list)
            /\ \A i \in DOMAIN routes :
                   LET item == AcceptedOf(rec[w].list)[i] IN
                   /\ routes[i].Hostnames = item.Spec.Hostnames
                   /\ \A k \in DOMAIN routes[i].Rules :
                          LET src == UsableRules(item)[k].Matches
                              out == routes[i].Rules[k].Matches
                          IN  /\ Len(out) = Len(src)
                              /\ \A n \in DOMAIN out :
                                     PathCopied(src[n].Path, out[n].Path)

\* A table of two routes was assigned, one with two hostnames and a rule of
\* two matches, one of them a path clause without a type.
C14_Witness ==
    \E w \in Workers :
        /\ JustAssigned(w)
        /\ Len(routes) = 2
        /\ \E i \in DOMAIN routes :
               /\ Len(routes[i].Hostnames) = 2
               /\ \E k \in DOMAIN routes[i].Rules :
                      /\ Len(routes[i].Rules[k].Matches) = 2
                      /\ \E n \in 1..2 :
                             LET src == UsableRules(AcceptedOf(rec[w].list)[i])[k].Matches[n]
                             IN  ~src.Path.Nil /\ src.Path.Type.Nil

\* C16: an assigned table has, for each accepted resource, exactly as many
\* rules as the resource has rules with a qualifying backend reference, and
\* every one of them forwards to a qualifying reference of the resource:
\* a rule whose references all have another kind or no port, or that has no
\* reference, is left out and the other rules are kept.
C16_NoRuleWithoutBackend ==
    \A w \in Workers :
        rec[w].pc = "assigned" =>
            /\ SameShape(routes, rec[w].list)
            /\ \A i \in DOMAIN routes :
                   \A k \in DOMAIN routes[i].Rules :
                       \E rule \in {AcceptedOf(rec[w].list)[i].Spec.Rules[n] :
                                      n \in DOMAIN AcceptedOf(rec[w].list)[i].Spec.Rules} :
                           \E j \in DOMAIN rule.BackendRefs :
                               /\ Qualifying(rule.BackendRefs[j])
                               /\ routes[i].Rules[k].Backend.Port = rule.BackendRefs[j].Port.V

\* A table was assigned for a resource with a rule that has references but
\* none that qualifies, followed by a rule that is kept, and for a resource
\* all of whose rules are left out.
C16_Witness ==
    \E w \in Workers :
        /\ JustAssigned(w)
        /\ \E i \in DOMAIN routes :
               LET rules == AcceptedOf(rec[w].list)[i].Spec.Rules
               IN  /\ Len(rules) = 2
                   /\ rules[1].BackendRefs # <<>>
                   /\ ~HasQualifying(rules[1])
                   /\ HasQualifying(rules[2])
                   /\ Len(routes[i].Rules) = 1

(***************************************************************************)
(* Properties of the reconcile of routes.                                  *)
(***************************************************************************)
Elements(seq) == {seq[i] : i \in DOMAIN seq}

\* The compilation of the route of the specification's example, here
\* ns1/r1 with backend svc1.
ExampleRoute ==
    HTTPRoute(<<"example.com">>,
              <<RouteRule(<<RouteMatch(PathMatch(PathMatchTypeExact, S_foo), <<>>)>>,
                          Backend("svc1.ns1.svc.cluster.local", 80))>>)

\* Worker w has assigned the table of its reconcile of a valid route that
\* declares a parent.
RebuiltForParented(w) ==
    /\ rec[w].pc = "assigned"
    /\ rec[w].route.Spec.ParentRefs # <<>>

\* C15 as stated: the table assigned by a successful reconcile of a valid
\* route that declares at least one parent holds the route's compilation.
C15_ReconciledRouteInTable ==
    \A w \in Workers :
        RebuiltForParented(w) => AppearsInTable(rec[w].key, routes)

\* The listing of worker w returned its route with the status the worker
\* wrote (and possibly entries added to it).
ListedAsWritten(w) ==
    \E i \in DOMAIN rec[w].list :
        /\ rec[w].list[i].Key = rec[w].key
        /\ IsPrefix(rec[w].route.Parents, rec[w].list[i].Parents)

\* C15, amended: the table assigned by a successful reconcile of a valid
\* route that declares at least one parent holds the route's compilation
\* whenever the reconcile's listing returned the route with the status the
\* reconcile wrote; for the example route the table then holds a rule with
\* backend svc1.ns1.svc.cluster.local:80 whose match is Exact "/foo",
\* satisfied by "/foo" and not by "/foot".
C15_ListedRouteInTable ==
    \A w \in Workers :
        (RebuiltForParented(w) /\ ListedAsWritten(w)) =>
            /\ AppearsInTable(rec[w].key, routes)
            /\ \A i \in DOMAIN rec[w].list :
                   (rec[w].list[i].Key = rec[w].key /\ rec[w].list[i].Spec = SpecValid)
                       => /\ ExampleRoute \in Elements(routes)
                          /\ Resolve(<<ExampleRoute>>,
                                     [Host |-> "example.com", Path |-> S_foo,
                                      Header |-> NoHeader])
                                 = Forwarded(Backend("svc1.ns1.svc.cluster.local", 80))
                          /\ Resolve(<<ExampleRoute>>,
                                     [Host |-> "example.com", Path |-> S_foot,
                                      Header |-> NoHeader])
                                 = NotFound

\* The reconcile of the example route has assigned a table that holds its
\* compilation next to another route's.
C15_Witness ==
    \E w \in Workers :
        /\ RebuiltForParented(w)
        /\ ListedAsWritten(w)
        /\ rec[w].route.Spec = SpecValid
        /\ ExampleRoute \in Elements(routes)
        /\ Len(routes) = 2

\* The step in which worker w's reconcile returns without an error: the
\* event is handled and will not be retried.
Handled(w) ==
    /\ rec[w].pc # "returned"
    /\ rec'[w].pc = "returned"
    /\ rec'[w].result \in {"published", "rejected", "notfound"}

\* The table holds a compilation of route k exactly if the store holds k
\* as accepted by this controller.
KeyReflected(k, st, table) ==
    (st[k].Exists /\ DeclaredAccepted(Item(k, st[k]))) <=> AppearsInTable(k, table)

\* C20: when the route reconciler has handled the event of a route (created,
\* updated, made invalid or deleted), the table the proxy holds agrees with
\* the store on that route: it holds the route's compilation exactly if the
\* route is in the store and accepted.  A reconcile that rebuilt the table
\* is held to this only if nothing was written since its listing.
C20_TableFollowsStore ==
    [][\A w \in Workers :
          (/\ Handled(w)
           /\ rec'[w].result = "published" => rec[w].list \in Lists(store'))
              => KeyReflected(rec'[w].key, store', routes')]_vars


(***************************************************************************)
(* Properties of the GatewayClass reconciler.                              *)
(***************************************************************************)
\* Reconcile of a class returns in this step, its status update done.
ClassReconciled ==
    /\ gcrec.pc # "returned"
    /\ gcrec'.pc = "returned"
    /\ gcrec'.result = "accepted"

\* gc holds exactly one condition, Accepted=True, observed at gc's generation.
SingleAccepted(gc) ==
    /\ Len(gc.Conditions) = 1
    /\ gc.Conditions[1].Type = "Accepted"
    /\ gc.Conditions[1].Status = "True"
    /\ gc.Conditions[1].ObservedGeneration = gc.Generation

\* C19: when a class reconcile succeeds for a class whose controller name is
\* this implementation's, the class in the store then holds exactly one
\* condition, Accepted=True, with observedGeneration equal to the class's
\* generation, whatever conditions it held before and whatever its
\* parameters are.
C19_ClassAcceptedAlone ==
    [][ClassReconciled =>
          /\ classes'[gcrec'.key].Exists
          /\ classes'[gcrec'.key].ControllerName = ControllerName
          /\ SingleAccepted(classes'[gcrec'.key])]_vars

\* A class of the second generation with parameters and with two conditions
\* of another writer has been reconciled.
C19_Witness ==
    /\ gcrec.pc = "returned"
    /\ gcrec.result = "accepted"
    /\ gcrec.gc.Conditions = ForeignClassConditions
    /\ gcrec.gc.ParametersRef # Unset
    /\ gcrec.gc.Generation = MaxGeneration
    /\ SingleAccepted(classes[gcrec.key])


(***************************************************************************)
(* Properties of the Gateway reconciler.                                   *)
(***************************************************************************)
\* The Service has no ingress, or its first ingress carries no IP.
NoProvisionedAddress(svc) ==
    \/ Len(svc.Ingress) = 0
    \/ svc.Ingress[1].IP = ""

\* Reconcile reads the gari-proxy Service in this step and finds it.
ServiceRead ==
    /\ gwrec.pc = "classok"
    /\ gwrec'.pc # "classok"
    /\ gwrec'.svc.Exists

HasCondition(conds, t, s) ==
    \E i \in DOMAIN conds : conds[i].Type = t /\ conds[i].Status = s

\* C17: a gateway reconcile that finds the gari-proxy Service without a
\* provisioned ingress address returns at once with a requeue request and no
\* error, and leaves every gateway, status included, as it was.
C17_NoAddressRequeues ==
    [][(ServiceRead /\ NoProvisionedAddress(gwrec'.svc)) =>
          /\ gwrec'.pc = "returned"
          /\ gwrec'.requeue
          /\ ~gwrec'.err
          /\ gateways' = gateways]_vars

\* A reconcile has returned with a requeue after it read a Service whose
\* only ingress has a host name and no IP, for a gateway that holds no
\* Programmed condition.
C17_Witness ==
    /\ gwrec.pc = "returned"
    /\ gwrec.result = "requeue"
    /\ gwrec.requeue
    /\ ~gwrec.err
    /\ gwrec.svc.Exists
    /\ Len(gwrec.svc.Ingress) = 1
    /\ NoProvisionedAddress(gwrec.svc)
    /\ gateways[gwrec.key].Exists
    /\ ~HasCondition(gateways[gwrec.key].Conditions, "Programmed", "True")

\* The status of gateway k is written in this step.
StatusWritten(k) ==
    /\ gateways[k].Exists
    /\ gateways'[k].Exists
    /\ \/ gateways'[k].Conditions # gateways[k].Conditions
       \/ gateways'[k].Addresses # gateways[k].Addresses
       \/ /\ gwrec.pc = "hasip"
          /\ gwrec'.result = "programmed"
          /\ gwrec'.key = k

\* gw is Programmed and Accepted at the one address that is the first
\* ingress IP of svc.
ProgrammedAtFirstIngress(gw, svc) ==
    /\ HasCondition(gw.Conditions, "Programmed", "True")
    /\ HasCondition(gw.Conditions, "Accepted", "True")
    /\ Len(gw.Addresses) = 1
    /\ gw.Addresses[1].Value # ""
    /\ svc.Exists
    /\ Len(svc.Ingress) > 0
    /\ gw.Addresses[1].Value = svc.Ingress[1].IP

\* C18: every status written to a gateway has Programmed=True and
\* Accepted=True and exactly one address, non-empty and equal to the first
\* ingress IP of the Service as the writing reconcile read it.
C18_WrittenStatusProgrammed ==
    [][\A k \in GatewayKeys :
          StatusWritten(k) => ProgrammedAtFirstIngress(gateways'[k], gwrec'.svc)]_vars

\* A gateway has been programmed from a Service with two ingress IPs, and
\* the Service has lost its addresses since.
C18_Witness ==
    /\ gwrec.pc = "returned"
    /\ gwrec.result = "programmed"
    /\ Len(gwrec.svc.Ingress) = 2
    /\ gateways[gwrec.key].Exists
    /\ ProgrammedAtFirstIngress(gateways[gwrec.key], gwrec.svc)
    /\ service.Exists
    /\ service.Ingress = <<>>


(***************************************************************************)
(* Properties of the settled system.                                       *)
(***************************************************************************)
\* No event awaits a reconcile and no reconcile is running.
Settled ==
    /\ queue.keys = {}
    /\ \A w \in Workers : rec[w].pc = "idle"

\* The table is the compilation, in some order, of exactly the routes of the
\* store that this controller declares accepted.
TableOfAccepted ==
    LET acc == {k \in RouteKeys :
                   store[k].Exists /\ DeclaredAccepted(Item(k, store[k]))}
    IN  /\ Len(routes) = Cardinality(acc)
        /\ \A k \in acc :
               \E i \in DOMAIN routes : routes[i] = compileRoute(Item(k, store[k]))

\* The status of every route with a parent says Accepted = True exactly when
\* the route's content is valid.
StatusAgreesWithContent ==
    \A k \in RouteKeys :
        (store[k].Exists /\ store[k].Spec.ParentRefs # <<>>) =>
            /\ Len(store[k].Parents) = Len(store[k].Spec.ParentRefs)
            /\ validateRoute(Item(k, store[k])) <=> DeclaredAccepted(Item(k, store[k]))

\* C21: if from some point on no event is queued and no reconcile runs (the
\* store has stopped changing and every pending reconcile has completed
\* without error), then from some point on the table is the compilation of
\* exactly the routes declared accepted, and every route's status agrees
\* with the validity of its content.
C21_EventuallyConsistent ==
    <>[]Settled => <>[](TableOfAccepted /\ StatusAgreesWithContent)


\* Request r takes a step of ServeHTTP.
Capturing(r) == rd[r].pc = "idle" /\ rd'[r].pc = "captured"

Resolving(r) == rd[r].pc = "scan" /\ rd'[r].pc = "responded"

\* C22: a request takes, whole, the table the handle holds when it starts
\* (the table of the latest publish at that moment), keeps it through every
\* publish that follows, and is answered with the matcher's answer on that
\* one table: at the response the table is that of the latest publish or of
\* an earlier one, never a mixture.
C22_ObservesOnePublish ==
    [][\A r \in Readers :
          /\ Capturing(r) => (rd'[r].routes = routes /\ routes \in published)
          /\ (rd[r].pc # "idle" /\ rd'[r].pc # "idle") =>
                 rd'[r].routes = rd[r].routes
          /\ Resolving(r) =>
                 /\ rd'[r].seen = rd[r].routes
                 /\ rd'[r].resp = Resolve(rd[r].routes, rd[r].req)
                 /\ rd[r].routes \in published']_vars

\* A request has been answered from the table of an earlier publish, and the
\* table of the latest publish would have answered it otherwise.
C22_Witness ==
    \E r \in Readers :
        /\ rd[r].pc = "responded"
        /\ rd[r].routes \in published
        /\ rd[r].routes # routes
        /\ rd[r].resp = Resolve(rd[r].routes, rd[r].req)
        /\ rd[r].resp # Resolve(routes, rd[r].req)


\* The step in which worker w's Status().Update succeeds.
StatusWrite(w) ==
    /\ rec[w].pc = "fetched"
    /\ \/ rec'[w].pc = "updated"
       \/ rec'[w].pc = "returned" /\ rec'[w].result = "rejected"

ConditionOf(ps, t) ==
    CHOOSE c \in {ps.Conditions[j] : j \in DOMAIN ps.Conditions} : c.Type = t

\* One entry per declared parent, in declared order, of this controller,
\* with the conditions Accepted and ResolvedRefs and nothing else;
\* ResolvedRefs is True and Accepted is the same on every entry.
OneEntryPerParent(res) ==
    /\ Len(res.Parents) = Len(res.Spec.ParentRefs)
    /\ \A i \in DOMAIN res.Parents :
           /\ res.Parents[i].ParentRef = res.Spec.ParentRefs[i]
           /\ res.Parents[i].ControllerName = ControllerName
           /\ Len(res.Parents[i].Conditions) = 2
           /\ {res.Parents[i].Conditions[j].Type : j \in 1..2}
                  = {"Accepted", "ResolvedRefs"}
           /\ ConditionOf(res.Parents[i], "ResolvedRefs").Status = "True"
           /\ ConditionOf(res.Parents[i], "Accepted").Status \in {"True", "False"}
    /\ \A i, j \in DOMAIN res.Parents :
           ConditionOf(res.Parents[i], "Accepted").Status
               = ConditionOf(res.Parents[j], "Accepted").Status

\* C23: the status write of a route reconcile leaves the route with exactly
\* one parent entry per declared parent attachment, in declared order, each
\* naming the attachment and this controller and carrying exactly Accepted
\* and ResolvedRefs, ResolvedRefs True and Accepted equal on all entries;
\* the entries the route held before, another controller's among them, are
\* gone.
C23_StatusPerParent ==
    [][\A w \in Workers :
          StatusWrite(w) => OneEntryPerParent(store'[rec[w].key])]_vars

\* A reconcile has written the status of the route with two parents and an
\* invalid pattern.
C23_Witness ==
    \E w \in Workers :
        /\ rec[w].pc = "returned"
        /\ rec[w].result = "rejected"
        /\ store[rec[w].key].Exists
        /\ Len(store[rec[w].key].Spec.ParentRefs) = 2
        /\ OneEntryPerParent(store[rec[w].key])
        /\ ConditionOf(store[rec[w].key].Parents[2], "Accepted").Status = "False"


\* Some header clause of the route is a RegularExpression whose pattern does
\* not compile.
FailsValidation(route) ==
    \E i \in DOMAIN route.Spec.Rules :
        \E j \in DOMAIN route.Spec.Rules[i].Matches :
            \E h \in DOMAIN route.Spec.Rules[i].Matches[j].Headers :
                LET header == route.Spec.Rules[i].Matches[j].Headers[h]
                IN  /\ ~header.Type.Nil
                    /\ header.Type.V = "RegularExpression"
                    /\ ~RegexpCompiles(header.Value)

\* C24: from its fetch to its return, the reconcile of a route that fails
\* validation leaves the proxy's table and the tables handed to it as they
\* were; it never lists or publishes, and when its status write succeeds it
\* returns without error, the route rejected on every parent.
C24_InvalidReconcileKeepsTable ==
    [][\A w \in Workers :
          /\ (rec[w].pc = "idle" /\ rec'[w].pc = "fetched"
                  /\ FailsValidation(rec'[w].route)) =>
                 (routes' = routes /\ published' = published)
          /\ (rec[w].pc = "fetched" /\ FailsValidation(rec[w].route)) =>
                 /\ routes' = routes
                 /\ published' = published
                 /\ rec'[w].pc \in {"fetched", "returned"}
                 /\ (rec'[w].pc = "returned" /\ rec'[w].result # "error") =>
                        /\ rec'[w].result = "rejected"
                        /\ RejectedOnEveryParent(store'[rec'[w].key])]_vars

\* The reconcile of an invalid route has returned while the table holds the
\* route's earlier, valid version.
C24_Witness ==
    \E w \in Workers :
        /\ rec[w].pc = "returned"
        /\ rec[w].result = "rejected"
        /\ FailsValidation(Item(rec[w].key, store[rec[w].key]))
        /\ RejectedOnEveryParent(store[rec[w].key])
        /\ AppearsInTable(rec[w].key, routes)


\* Worker w holds a route that passed validation and whose status it wrote.
ValidatedAndWritten(w) ==
    /\ rec[w].valid
    /\ rec[w].route.Parents = parentStatuses(rec[w].route, TRUE)

\* C26: the table changes only in the assignment of a reconcile that
\* validated its route, then wrote its status, then listed the routes, and
\* the new table is the compilation of that listing; a reconcile whose
\* status write or listing fails returns the error with the table as it was
\* and goes no further.
C26_ReplaceOnlyAfterSuccess ==
    [][/\ routes' # routes =>
              \E w \in Workers :
                  /\ rec[w].pc = "locked"
                  /\ ValidatedAndWritten(w)
                  /\ routes' = extractRoutes(rec[w].list)
       /\ \A w \in Workers :
              /\ (rec[w].pc # "updated" /\ rec'[w].pc = "updated") =>
                     /\ rec[w].pc = "fetched"
                     /\ rec[w].valid
                     /\ store'[rec[w].key].Parents = parentStatuses(rec[w].route, TRUE)
              /\ (rec[w].pc # "listed" /\ rec'[w].pc = "listed") =>
                     /\ rec[w].pc = "updated"
                     /\ ValidatedAndWritten(w)
                     /\ rec'[w].list \in Lists(store)
              /\ (rec[w].pc # "locked" /\ rec'[w].pc = "locked") =>
                     rec[w].pc \in {"listed", "waiting"}
              /\ (rec[w].pc \in {"fetched", "updated"} /\ rec'[w].pc = "returned"
                      /\ rec'[w].result # "rejected") =>
                     /\ rec'[w].result = "error"
                     /\ routes' = routes
                     /\ published' = published]_vars

\* A reconcile has returned an error after its status write: the route is
\* declared accepted and the table, built before, does not hold it.
C26_Witness ==
    \E w \in Workers :
        /\ rec[w].pc = "returned"
        /\ rec[w].result = "error"
        /\ store[rec[w].key].Exists
        /\ DeclaredAccepted(Item(rec[w].key, store[rec[w].key]))
        /\ routes # <<>>
        /\ ~AppearsInTable(rec[w].key, routes)


(***************************************************************************)
(* Properties of the three controllers side by side.                       *)
(***************************************************************************)
\* C25: a route reconcile whose route does not exist at its Get returns at
\* once without error, with the store, the table and the published tables
\* as they were; a class reconcile and a gateway reconcile whose own
\* resource does not exist return at once without error or requeue and
\* without a write.
C25_NotFoundIsNoOp ==
    [][/\ \A w \in Workers :
              (rec[w].pc = "idle" /\ rec'[w].pc # "idle"
                   /\ ~store[rec'[w].key].Exists) =>
                  /\ rec'[w].pc = "returned"
                  /\ rec'[w].result = "notfound"
                  /\ store' = store
                  /\ routes' = routes
                  /\ published' = published
       /\ (gcrec.pc = "idle" /\ gcrec'.pc # "idle"
               /\ ~classes[gcrec'.key].Exists) =>
              /\ gcrec'.pc = "returned"
              /\ gcrec'.result = "notfound"
              /\ classes' = classes
              /\ routes' = routes
       /\ (gwrec.pc = "idle" /\ gwrec'.pc # "idle"
               /\ ~gateways[gwrec'.key].Exists) =>
              /\ gwrec'.pc = "returned"
              /\ gwrec'.result = "notfound"
              /\ ~gwrec'.err
              /\ ~gwrec'.requeue
              /\ gateways' = gateways
              /\ routes' = routes]_vars

\* The three reconcilers have returned from events of resources that were
\* deleted, the route's compilation still in the table.
C25_Witness ==
    /\ \E w \in Workers :
           /\ rec[w].pc = "returned"
           /\ rec[w].result = "notfound"
           /\ ~store[rec[w].key].Exists
           /\ routes # <<>>
    /\ gcrec.pc = "returned"
    /\ gcrec.result = "notfound"
    /\ gwrec.pc = "returned"
    /\ gwrec.result = "notfound"
    /\ ~gwrec.err


\* A header clause the compilation keeps: any clause but a RegularExpression
\* clause whose pattern does not compile.
Compilable(h) == h.Type # Ptr("RegularExpression") \/ RegexpCompiles(h.Value)

KeptHeaders(match) == SelectSeq(match.Headers, Compilable)

\* The compiled header clause is the source's, with Exact for no type.
HeaderCopied(src, compiled) ==
    /\ compiled.Name = src.Name
    /\ compiled.Value = src.Value
    /\ compiled.Type = IF src.Type.Nil THEN "Exact" ELSE src.Type.V

\* C27: in an assigned table, every compiled match of an accepted resource
\* of the listing, whatever the resource's spec now says, has the path
\* clause of its source match and exactly the source's header clauses other
\* than the RegularExpression clauses whose pattern does not compile, in
\* declared order.
C27_UncompilableHeaderDropped ==
    \A w \in Workers :
        rec[w].pc = "assigned" =>
            /\ SameShape(routes, rec[w].list)
            /\ \A i \in DOMAIN routes :
                   \A k \in DOMAIN routes[i].Rules :
                       LET src == UsableRules(AcceptedOf(rec[w].list)[i])[k].Matches
                           out == routes[i].Rules[k].Matches
                       IN  /\ Len(out) = Len(src)
                           /\ \A n \in DOMAIN out :
                                  /\ PathCopied(src[n].Path, out[n].Path)
                                  /\ Len(out[n].Headers) = Len(KeptHeaders(src[n]))
                                  /\ \A h \in DOMAIN out[n].Headers :
                                         HeaderCopied(KeptHeaders(src[n])[h],
                                                      out[n].Headers[h])

\* A table was assigned that holds a match of a resource whose status says
\* accepted and whose spec has a header clause with an uncompilable pattern:
\* the match has its path clause and the two other header clauses.
C27_Witness ==
    \E w \in Workers :
        /\ JustAssigned(w)
        /\ \E i \in DOMAIN routes :
               \E k \in DOMAIN routes[i].Rules :
                   \E n \in DOMAIN routes[i].Rules[k].Matches :
                       LET src == UsableRules(AcceptedOf(rec[w].list)[i])[k].Matches[n]
                           out == routes[i].Rules[k].Matches[n]
                       IN  /\ Len(src.Headers) = 3
                           /\ ~Compilable(src.Headers[1])
                           /\ Len(out.Headers) = 2
                           /\ ~out.Path.Nil


\* regexp.MatchString on the patterns and the header values of the header
\* specification: an unanchored search, so "1|2" is found in every value
\* that holds a 1 or a 2, and "^1" in every value that starts with 1.
RegexpMatchString(pattern, value) ==
    CASE pattern = "1|2" -> value \in {"1", "2", "1|2", "21", "^1"}
      [] pattern = "^1" -> value \in {"1", "1|2"}
      [] OTHER -> FALSE

\* A header clause is satisfied: an Exact clause by the equal value, a
\* RegularExpression clause by a value its pattern matches.
HeaderSatisfied(hm, r) ==
    IF hm.Type = "RegularExpression"
    THEN RegexpMatchString(hm.Value, HeaderGet(r.Header, hm.Name))
    ELSE HeaderGet(r.Header, hm.Name) = hm.Value

\* The one match of the table of the header specification.
TheMatch == routes[1].Rules[1].Matches[1]

\* C28: the request is forwarded by the one match of the table, which has
\* no path clause, exactly if every header clause of the match is satisfied:
\* an Exact clause by the header value equal to the clause value, a
\* RegularExpression clause by a header value the compiled pattern matches.
C28_HeaderClausesSatisfied ==
    resp # NoResponse =>
        (resp.Status = "forward" <=>
            \A i \in DOMAIN TheMatch.Headers : HeaderSatisfied(TheMatch.Headers[i], req))


\* The steps of the class reconciler and of the writers of classes, of the
\* gateway reconciler and of the writers of gateways, and of a request
\* resolution.
ClassStep == gcrec' # gcrec \/ classes' # classes

GatewayStep == gwrec' # gwrec \/ gateways' # gateways

ResolutionStep == resp' # resp

\* The step in which a route reconcile assigns the table it built.
PublishStep ==
    \E w \in Workers :
        /\ rec[w].pc = "locked"
        /\ rec'[w].pc = "assigned"
        /\ routes' = rec[w].newRoutes

\* C29: with the proxy and the three controllers side by side, the table
\* handle and the set of published tables change only in the step in which
\* a route reconcile assigns its table; every step of a class reconcile, of
\* a gateway reconcile and of a request resolution, forwarded or answered
\* 404, leaves both unchanged.
C29_OnlyPublishWritesTable ==
    [][/\ (routes' # routes \/ published' # published) => PublishStep
       /\ (ClassStep \/ GatewayStep \/ ResolutionStep) =>
              routes' = routes /\ published' = published]_vars

\* A table is published, a class reconcile and a gateway reconcile have
\* written their statuses and returned, and the request was forwarded from
\* the table, which is still the published one.
C29_Witness ==
    /\ routes # <<>>
    /\ published = {routes}
    /\ gcrec.pc = "returned" /\ gcrec.result = "accepted"
    /\ gwrec.pc = "returned" /\ gwrec.result = "programmed"
    /\ resp.Status = "forward"


\* The class is of another implementation.
ForeignClass(gc) == gc.Exists /\ gc.ControllerName # ControllerName

\* The stored resources of the three controllers are as they were.
NothingWritten == classes' = classes /\ gateways' = gateways /\ store' = store

\* The class reconcile reads a class of another implementation.
ClassReadsForeign ==
    /\ gcrec.pc = "idle"
    /\ gcrec'.pc # "idle"
    /\ ForeignClass(classes[gcrec'.key])

\* The gateway reconcile, holding its gateway, reads the gateway's class and
\* finds none or one of another implementation.
GatewayReadsForeign ==
    /\ gwrec.pc = "fetched"
    /\ gwrec'.pc # "fetched"
    /\ LET gc == ClassOf(gwrec.gw.GatewayClassName)
       IN  ~gc.Exists \/ ForeignClass(gc)

\* C30: a class reconcile that reads a class with another controller name
\* returns in that step with a nil error and writes nothing; a gateway
\* reconcile writes nothing while it reads its gateway and the gateway's
\* class, and when the class is absent or has another controller name it
\* returns in that step with no requeue and a nil error.
C30_ForeignResourceUntouched ==
    [][/\ ClassReadsForeign =>
              /\ gcrec'.pc = "returned" /\ gcrec'.result = "ignored"
              /\ NothingWritten
       /\ (gwrec.pc = "idle" /\ gwrec'.pc # "idle") => NothingWritten
       /\ GatewayReadsForeign =>
              /\ gwrec'.pc = "returned"
              /\ gwrec'.result \in {"noclass", "ignored"}
              /\ ~gwrec'.requeue /\ ~gwrec'.err
              /\ NothingWritten]_vars

\* Both reconciles have returned on a class of another implementation, and
\* the gateway has the status it was created with.
C30_Witness ==
    /\ gcrec.pc = "returned" /\ gcrec.result = "ignored"
    /\ gwrec.pc = "returned" /\ gwrec.result = "ignored"
    /\ ForeignClass(ClassOf(gwrec.gw.GatewayClassName))
    /\ gateways[gwrec.key].Exists
    /\ gateways[gwrec.key].Addresses = <<>>


\* The gateway reconcile, holding its gateway, fetches the gateway's class.
ClassFetchStep == gwrec.pc = "fetched" /\ gwrec'.pc # "fetched"

\* C31: the step in which a gateway reconcile fetches the class of its
\* gateway leaves every gateway as it was; when the fetch fails for another
\* reason than absence the reconcile returns an error, and when the class is
\* absent and the fetch tells so the reconcile returns no error and asks for
\* no requeue.
C31_ClassFetchFailure ==
    [][ClassFetchStep =>
          /\ gateways' = gateways
          /\ gwrec'.result = "error" =>
                 gwrec'.pc = "returned" /\ gwrec'.err
          /\ (gwrec'.result # "error"
                /\ ~ClassOf(gwrec.gw.GatewayClassName).Exists) =>
                 /\ gwrec'.pc = "returned" /\ gwrec'.result = "noclass"
                 /\ ~gwrec'.err /\ ~gwrec'.requeue]_vars

\* A reconcile has returned an error although its gateway and the class of
\* this implementation exist, and the gateway is as the reconcile read it,
\* without an address.
C31_Witness ==
    /\ gwrec.pc = "returned" /\ gwrec.result = "error" /\ gwrec.err
    /\ gwrec.gw.Exists
    /\ ~gwrec.svc.Exists
    /\ gateways[gwrec.key] = gwrec.gw
    /\ gwrec.gw.Addresses = <<>>
    /\ ClassOf(gwrec.gw.GatewayClassName).Exists


\* The class is as a reconcile of it leaves it: its conditions are the ones
\* Reconcile assigns to it when it finds it with the conditions of a new
\* class or of another writer.
AsReconciled(gc) ==
    /\ gc.Exists
    /\ \E c \in {PendingClassConditions, ForeignClassConditions} :
           gc.Conditions = classConditions([gc EXCEPT !.Conditions = c])

\* C32: when a class reconcile succeeds on a class of this implementation
\* that the store holds as an earlier reconcile left it, with its spec
\* unchanged since, the class in the store after the status write is the
\* class before it: every field of the status but lastTransitionTime, which
\* the conditions of the model do not carry, is the same.
C32_ClassReconcileIdempotent ==
    [][(ClassReconciled /\ AsReconciled(classes[gcrec'.key])) =>
          classes'[gcrec'.key] = classes[gcrec'.key]]_vars

\* A class that was fetched as an earlier reconcile left it has been
\* reconciled again, and the store holds it as it was fetched.
C32_Witness ==
    /\ gcrec.pc = "returned"
    /\ gcrec.result = "accepted"
    /\ AsReconciled(gcrec.gc)
    /\ gcrec.gc.ControllerName = ControllerName
    /\ classes[gcrec.key] = gcrec.gc


\* The states of the Service in which its first ingress carries an IP.
ProvisionedServices ==
    {s \in ProgramServices : ~NoProvisionedAddress(s) /\ s.Exists}

\* C33: for the gateway of a class of this implementation, if from some
\* point on the gari-proxy Service keeps one state whose first ingress
\* carries an IP, then, requeued and retried reconciles being delivered and
\* status writes succeeding in the end, from some point on the gateway is
\* Programmed and Accepted with that IP as its one address.
C33_EventuallyProgrammed ==
    \A s \in ProvisionedServices :
        <>[](service = s) =>
            <>[](\A k \in GatewayKeys : ProgrammedAtFirstIngress(gateways[k], s))

\* The gateway has been programmed with the second address the Service was
\* given, after an earlier status with another address.
C33_Witness ==
    /\ gwrec.pc = "returned" /\ gwrec.result = "programmed"
    /\ gwrec.gw.Addresses # <<>>
    /\ gwrec.gw.Addresses # gateways[gwrec.key].Addresses
    /\ ProgrammedAtFirstIngress(gateways[gwrec.key], service)


\* A request is in its matching or forwarding phase, the handle copied.
Matching(r) == rd[r].pc \in {"scan", "responded"}

\* A worker is inside UpdateRoutes: about to lock, blocked in Lock, or
\* holding the lock.
InReplace(w) == rec[w].pc \in {"listed", "waiting", "locked", "assigned"}

\* A step of the mutex: a Lock that returns, the assignment under the lock,
\* an Unlock or an RUnlock.
MutexStep ==
    \/ \E w \in Workers :
           UpdateRoutesLock(w) \/ UpdateRoutesAssign(w) \/ UpdateRoutesUnlock(w)
    \/ \E r \in Readers : ServeRUnlock(r)

\* C34: a request holds the read lock only between its RLock and the copy
\* of the handle, never while it matches or forwards; a Replace whose Lock is
\* pending can take the lock whenever no request is between RLock and
\* RUnlock, however many are matching or forwarding; a request can capture
\* the handle whenever no Replace is blocked in or holds the lock; and
\* whenever a Replace is under way or a request holds the read lock, a step
\* of the mutex is possible, so nothing deadlocks.
C34_LockOnlyAroundHandle ==
    /\ \A r \in Readers : Matching(r) => r \notin mu.readers
    /\ \A r \in Readers : r \in mu.readers => rd[r].pc = "captured"
    /\ \A w \in Workers :
           (/\ rec[w].pc \in {"listed", "waiting"}
            /\ \A v \in Workers : rec[v].pc \notin {"locked", "assigned"}
            /\ \A r \in Readers : rd[r].pc # "captured")
               => ENABLED UpdateRoutesLock(w)
    /\ \A r \in Readers :
           (/\ rd[r].pc = "idle"
            /\ \A w \in Workers : rec[w].pc \notin {"waiting", "locked", "assigned"})
               => \A request \in ServeRequests : ENABLED ServeCapture(r, request)
    /\ ((\E w \in Workers : InReplace(w)) \/ (\E r \in Readers : rd[r].pc = "captured"))
           => ENABLED MutexStep

\* A Replace holds the lock while a request that captured the earlier
\* table is matching.
C34_Witness ==
    \E w \in Workers : \E r \in Readers :
        /\ rec[w].pc \in {"locked", "assigned"}
        /\ mu.writer = w
        /\ Matching(r)
        /\ rd[r].pc = "scan"


\* A clause value without its last character.
Front(v) == SubSeq(v, 1, Len(v) - 1)

\* v is not empty and ends in "/".
EndsInSlash(v) == Len(v) > 0 /\ v[Len(v)] = "/"

(***************************************************************************)
(* C35: a PathPrefix clause whose value is v followed by "/", v not ending *)
(* in "/", is satisfied by the paths that satisfy the clause of value v,   *)
(* which are v itself and the paths that start with v followed by "/"; and *)
(* the clause of value "/" is satisfied by every path.                     *)
(***************************************************************************)
C35_TrailingSlashTolerated ==
    (/\ Served
     /\ SinglePathClause
     /\ TheClause.Type = PathMatchTypePathPrefix
     /\ EndsInSlash(TheClause.Value))
    => IF TheClause.Value = S_root
       THEN resp = Forwarded(routes[1].Rules[1].Backend)
       ELSE ~EndsInSlash(Front(TheClause.Value)) =>
                (resp = Forwarded(routes[1].Rules[1].Backend)
                    <=> \/ req.Path = Front(TheClause.Value)
                        \/ StartsWith(req.Path, TheClause.Value))


\* The match of a candidate: a rule without matches stands for RouteMatch{}.
MatchAt(table, c) ==
    IF c.mi = 0 THEN EmptyRouteMatch
    ELSE table[c.ri].Rules[c.ki].Matches[c.mi]

\* The match the scan of the table ends with.
WinningMatch(table, r) == scanRoutes(table, 1, NoBest, r).bestMatch.M

(***************************************************************************)
(* C36: when ServeHTTP forwards, the backend is that of a rule, in a route *)
(* that admits the host, which holds the match the scan ended with as a    *)
(* satisfied match, or which has no match when the scan ended with the     *)
(* empty match of a rule without matches.                                  *)
(***************************************************************************)
C36_BackendOfWinningRule ==
    resp.Status = "forward" =>
        \E c \in Candidates(routes, req) :
            /\ resp = Forwarded(c.backend)
            /\ MatchAt(routes, c) = WinningMatch(routes, req)

\* A request was forwarded to the first of the two rules of a route, the
\* second rule having a match the request does not satisfy.
C36_Witness ==
    /\ Len(routes) = 1
    /\ Len(routes[1].Rules) = 2
    /\ resp = Forwarded(routes[1].Rules[1].Backend)
    /\ Len(routes[1].Rules[1].Matches) = 1
    /\ Len(routes[1].Rules[2].Matches) = 1
    /\ ~matchMatch(routes[1].Rules[2].Matches[1], req)


\* Every route of table a is a route of table b.
WithinTable(a, b) ==
    \A i \in DOMAIN a : \E j \in DOMAIN b : b[j] = a[i]

ReplaceReturns(w) == rec[w].pc = "assigned" /\ rec'[w].pc # "assigned"

\* Worker w's UpdateRoutes stores its table.
ReplaceAssigns(w) == rec[w].pc = "locked" /\ rec'[w].pc = "assigned"

\* C38: read freshness. The handle starts with the empty table; when
\* UpdateRoutes(T) returns the handle holds T; the handle changes only when a
\* later UpdateRoutes stores its table; a request that begins takes the table
\* the handle holds at that moment. So a request beginning after
\* UpdateRoutes(T) has returned is matched against T or a table published
\* after T, never an earlier one, and a request matched against the empty
\* table of NewProxy is answered 404.
C38_ReadFreshness ==
    /\ routes = <<>>
    /\ [][/\ \A w \in DOMAIN rec : ReplaceReturns(w) => routes' = rec[w].newRoutes
          /\ routes' # routes =>
                 \E w \in DOMAIN rec : ReplaceAssigns(w) /\ routes' = rec[w].newRoutes
          /\ \A r \in Readers :
                 /\ Capturing(r) => rd'[r].routes = routes'
                 /\ (Resolving(r) /\ rd[r].routes = <<>>) => rd'[r].resp = NotFound]_vars

\* After an UpdateRoutes has returned, and before the next one begins, a
\* request has begun and holds the table that call stored, which answers it
\* otherwise than the empty table.
C38_Witness ==
    \E r \in Readers : \E w \in Workers :
        /\ rec[w].pc = "returned" /\ rec[w].result = "published"
        /\ rd[r].pc = "captured"
        /\ rd[r].routes = routes
        /\ routes # <<>>
        /\ Resolve(routes, rd[r].req) # NotFound

\* Reconcile passes its r.Get of the gari-proxy Service in this step.
ServiceFetchStep == gwrec.pc = "classok" /\ gwrec'.pc # "classok"

\* C39: a gateway reconcile whose fetch of the gari-proxy Service fails,
\* also because the Service does not exist, returns an error, requests no
\* requeue and leaves every gateway as it was; a reconcile returns with a
\* requeue request and no error only from a fetch that found the Service,
\* and found it without an IP at its first ingress (no ingress at all
\* included).
C39_ServiceFetchFailure ==
    [][/\ (ServiceFetchStep /\ (~service.Exists \/ gwrec'.result = "error")) =>
              /\ gwrec'.pc = "returned"
              /\ gwrec'.result = "error"
              /\ gwrec'.err
              /\ ~gwrec'.requeue
              /\ gateways' = gateways
       /\ (gwrec'.pc = "returned" /\ gwrec.pc # "returned" /\ gwrec'.requeue) =>
              /\ ServiceFetchStep
              /\ ~gwrec'.err
              /\ service.Exists
              /\ gwrec'.svc = service
              /\ firstIngressIP(service) = ""]_vars

\* A reconcile of a gateway of this implementation's class has returned an
\* error without a requeue request because the gari-proxy Service does not
\* exist; the gateway holds no Programmed condition.
C39_Witness ==
    /\ gwrec.pc = "returned" /\ gwrec.result = "error"
    /\ gwrec.err /\ ~gwrec.requeue
    /\ service = AbsentService
    /\ gwrec.gw.Exists
    /\ ClassOf(gwrec.gw.GatewayClassName).Exists
    /\ ClassOf(gwrec.gw.GatewayClassName).ControllerName = ControllerName
    /\ gateways[gwrec.key] = gwrec.gw
    /\ ~HasCondition(gateways[gwrec.key].Conditions, "Programmed", "True")

\* The path types Weight knows.
KnownPathTypes == {PathMatchTypeExact, PathMatchTypePathPrefix, PathMatchTypeNone}

\* The matches of the routes of the table that admit the request's host.
AdmittedMatches ==
    {routes[ri].Rules[ki].Matches[mi] :
        <<ri, ki, mi>> \in
            {c \in (DOMAIN routes) \X (1..MaxSlots) \X (1..MaxSlots) :
                /\ HostAdmitted(routes[c[1]].Hostnames, req.Host)
                /\ c[2] \in DOMAIN routes[c[1]].Rules
                /\ c[3] \in DOMAIN routes[c[1]].Rules[c[2]].Matches}}

\* C40: a path clause of a type other than Exact and PathPrefix is satisfied
\* by every request path, so its match is satisfied as soon as its header
\* clauses are; a type other than Exact, PathPrefix and None weighs 0; and
\* when the request has a candidate of a known type (a satisfied match with
\* or without a path clause, or a rule without matches), the scan does not
\* end with a match of an unknown type.
C40_UnknownPathTypeLoses ==
    Served =>
        /\ \A m \in AdmittedMatches :
               (~m.Path.Nil /\ m.Path.Type \notin
                     {PathMatchTypeExact, PathMatchTypePathPrefix}) =>
                   /\ matchMatch(m, req) <=>
                          matchMatch(RouteMatch(NilPath, m.Headers), req)
                   /\ m.Path.Type \notin KnownPathTypes =>
                          Weight(getPathMatchType(m)) = 0
        /\ (\E d \in Candidates(routes, req) : d.key[1] > 0) =>
               getPathMatchType(WinningMatch(routes, req)) \in KnownPathTypes

====
